---------------------------- MODULE Spec2Model ----------------------------
(***************************************************************************)
(* A state-machine model of fs/aio.c: one kioctx with its completion ring, *)
(* its admission counter (reqs_available, global and per CPU), its two     *)
(* percpu references (users, reqs), the requests submitted on it, the      *)
(* worker-thread fallback, io_cancel, io_getevents and io_destroy.         *)
(*                                                                         *)
(* Granularity.  A critical section under one spinlock is one step.        *)
(* aio_complete is three steps (unlink and store the event; store the      *)
(* tail, refill, unlock; free and put).  io_cancel and io_getevents hold   *)
(* their users reference across one critical section and are one step.     *)
(* The cmpxchg loops of get_reqs_available and kiocb_cancel are one step   *)
(* each: they linearize at their last, successful, compare-and-swap.       *)
(* A percpu_ref is a counter and a "dying" flag; its release callback is   *)
(* queued by the put that takes a dying counter to zero and runs as a step *)
(* of its own.                                                             *)
(***************************************************************************)
EXTENDS Integers, Sequences, FiniteSets, TLC

(* ------------------------------ bounds -------------------------------- *)

\* Ring capacities (ctx->nr_events) a context is set up with.  The code
\* derives the capacity from the request and the page size
\* (aio_setup_ring); they are kept small here so that the ring wraps and
\* the admission counter runs dry (2), and so that two requests are in
\* flight together (3).
RingSizes == {2, 3}
\* Number of iocbs userspace submits on the context.
MaxReq == 2

(* ------------------------------ state --------------------------------- *)

VARIABLES
    \* struct kioctx
    nr_events,          \* ctx->nr_events, fixed by io_setup
    reqs_available,     \* atomic_t reqs_available
    cpu,                \* per-CPU kioctx_cpu.reqs_available
    tail,               \* ctx->tail
    completed_events,   \* ctx->completed_events
    completion_lock,    \* holder of ctx->completion_lock, <<>> when free
    active_reqs,        \* ctx->active_reqs
    dead,               \* ctx->dead
    users, users_dying, users_cb,   \* percpu_ref users; queued release calls
    reqs, reqs_dying, reqs_cb,      \* percpu_ref reqs; queued release calls
    rq_wait,            \* ctx->rq_wait: 0 (NULL) or the destroyer waiting
    mapped,             \* the ring is mapped in the address space
    table,              \* mm->ioctx_table[ctx->id] holds the context
    free_work,          \* queued free_ioctx work items
    nfreed,             \* times free_ioctx has run
    \* struct aio_ring and its records
    ring_head, ring_tail, io_events,
    \* per iocb: the submitter (spc), the operation (wpc), the aio_kiocb
    spc, wpc, sret, kres, ki_cancel, ki_list,
    \* the last return value of each io_cancel caller; io_destroy callers
    kret, dpc, dret, wait_count, wait_done,
    \* history
    delta,          \* net change the submit call in progress made to the counter total
    refilled,       \* slots that call's user_refill credited back
    npub,           \* tail stores made for the request
    pubrec,         \* obj and data in the slot that tail store made visible
    shadow,         \* per slot, the record of the completion last published there
    unreaped,       \* slots holding a published record the consumer has not taken
    overwrote,      \* an event store hit a slot holding an unreaped record
    last_store,     \* ring index of the latest event store, -1 before the first
    ncancel,        \* cancel functions invoked on the request
    reap_bad,       \* an aio_read_events_ring did not end, or left the ring pages
    ndrain,         \* times free_ioctx_users has run
    \* the rest of the system
    aio_nr,         \* the system-wide aio_nr: in units of the context's max_reqs where one context is followed, in events where the mm's contexts are
    ring_id,        \* aio_ring.id as user space has it in the header
    gev,            \* the io_getevents call that can sleep: its position, arguments and *i
    sub,            \* the do_io_submit call over an array of iocbs: position, array, i, ret
    ki_freed,       \* per iocb: kiocb_free has freed its aio_kiocb
    uaf,            \* iocbs whose aio_kiocb was read after it was freed
    wtask,          \* the worker tasks' fs, files and cred: "clean" or "corrupt"
    result,         \* the io_event that io_cancel's result argument points to
    peak,           \* per submitting thread: most slots outstanding at once during its call
    \* threads whose steps between their lock operations are followed
    kc,             \* the io_cancel call followed step by step: position, iocb, the value kiocb_cancel read
    lk,             \* per followed thread: the code path it is on, its position in it, the locks it holds
    ioctx_tbl,      \* mm->ioctx_table: no table, or per slot the context in it
    kx,             \* per kioctx object of the mm: its fields
    su,             \* per task of the mm: the io_setup or io_destroy call it is in
    xa,             \* the exit_aio call of the mm: position, i, skipped, wait
    percpu,         \* per CPU: the get_reqs_available or put_reqs_available that runs on it with interrupts off
    reap,           \* the callers of aio_read_events_ring, ctx->ring_lock, and what they copied out
    tab,            \* mm->ioctx_table with the tasks inside ioctx_add_table, ctx->id and ring->id of each context
    mig,            \* the ring pages of a context, the three locks around them, and the tasks that use them
    oa,             \* the IOCB_CMD_OPENAT requests and the descriptor table of the submitting task
    reaped,         \* aio_read_events_ring has copied a record out since refill_reqs_available last ran
    head_written    \* user space has stored into ring->head

(* ------------------------- program constants -------------------------- *)

EINTR == 4
EAGAIN == 11
EINVAL == 22
EINPROGRESS == 115
ERESTARTSYS == 512
EIOCBQUEUED == 529
MAX_ERRNO == 4095
EBADF == 9
EFAULT == 14
ENOMEM == 12

\* The CPUs of the machine; NCPU is num_possible_cpus().
CPUs == {0, 1}
NCPU == Cardinality(CPUs)
Reqs == 1 .. MaxReq
Slots == 0 .. (nr_events - 1)

\* The user's descriptors: address of the iocb and its aio_data cookie.
UserIocb(r) == 4096 + 64 * r
UserData(r) == 170 + 17 * (r - 1)

\* Values of aio_kiocb.ki_cancel.
NoCancel == "NULL"
CancelEarly == "aio_thread_queue_iocb_cancel_early"
CancelLate == "aio_thread_queue_iocb_cancel"
KIOCB_CANCELLED == "KIOCB_CANCELLED"

\* A zeroed ring slot (the ring pages are allocated with __GFP_ZERO).
ZeroEvent == [obj |-> 0, data |-> 0, res |-> 0, res2 |-> 0]

(* ---------------------- admission counter (pure) ---------------------- *)

\* ctx->req_batch as ioctx_alloc computes it.
req_batch ==
    LET b == (nr_events - 1) \div (NCPU * 4) IN IF b < 1 THEN 1 ELSE b


\* The flush loop of put_reqs_available on one CPU's counter.
RECURSIVE put_flush(_, _)
put_flush(glob, loc) ==
    IF loc >= req_batch * 2
    THEN put_flush(glob + req_batch, loc - req_batch)
    ELSE [glob |-> glob, loc |-> loc]

put_reqs_available_mut(glob, loc, nr) == put_flush(glob, loc)

put_reqs_available(glob, loc, nr) == put_flush(glob, loc + nr)

get_reqs_available_mut(glob, loc) ==
    IF loc = 0
    THEN [ok |-> TRUE, glob |-> IF glob >= req_batch THEN glob - req_batch ELSE glob,
          loc |-> loc + req_batch - 1]
    ELSE [ok |-> TRUE, glob |-> glob, loc |-> loc - 1]

\* get_reqs_available on one CPU's counter: ok, and the counters after it.
get_reqs_available(glob, loc) ==
    IF loc = 0
    THEN IF glob < req_batch
         THEN [ok |-> FALSE, glob |-> glob, loc |-> loc]
         ELSE [ok |-> TRUE, glob |-> glob - req_batch, loc |-> loc + req_batch - 1]
    ELSE [ok |-> TRUE, glob |-> glob, loc |-> loc - 1]

refill_credit_mut(head, tl, completed) == completed

\* refill_reqs_available: the number of slots it credits back, from the
\* user-written head, the kernel's tail and ctx->completed_events.
refill_credit(head, tl, completed) ==
    LET h == head % nr_events
        events_in_ring == IF h <= tl THEN tl - h ELSE nr_events - (h - tl)
    IN IF events_in_ring < completed THEN completed - events_in_ring ELSE 0

(* ------------------------------- reap --------------------------------- *)

AIO_EVENTS_PER_PAGE == 128
AIO_EVENTS_OFFSET == 1

Min(a, b) == IF a < b THEN a ELSE b

\* The copy loop of aio_read_events_ring: head and the count after it, from
\* the head and tail the caller passes.  oob: a copy_to_user was made from
\* outside the ring pages or with a negative size.  fuel bounds the number
\* of iterations; a loop that would not end returns hang.
RECURSIVE read_loop(_, _, _, _, _)
read_loop(head, tl, ret, nr, fuel) ==
    IF ~(ret < nr) \/ head = tl
    THEN [head |-> head, ret |-> ret, hang |-> FALSE, oob |-> FALSE]
    ELSE IF fuel = 0
    THEN [head |-> head, ret |-> ret, hang |-> TRUE, oob |-> FALSE]
    ELSE LET a0 == (IF head <= tl THEN tl ELSE nr_events) - head
             a1 == Min(a0, nr - ret)
             avail == Min(a1, AIO_EVENTS_PER_PAGE
                              - ((head + AIO_EVENTS_OFFSET) % AIO_EVENTS_PER_PAGE))
         IN IF avail < 0 \/ head + avail > nr_events
            THEN [head |-> head, ret |-> ret, hang |-> FALSE, oob |-> TRUE]
            ELSE read_loop((head + avail) % nr_events, tl, ret + avail, nr, fuel - 1)

aio_read_events_ring_mut(head, tl, nr) ==
    IF head = tl
    THEN [head |-> head, ret |-> 0, hang |-> FALSE, oob |-> FALSE]
    ELSE read_loop(head, tl % nr_events, 0, nr, nr_events + 1)

\* aio_read_events_ring on the header's head and tail: the head it writes
\* back (the header's head itself when the ring is empty) and its result.
aio_read_events_ring(head, tl, nr) ==
    IF head = tl
    THEN [head |-> head, ret |-> 0, hang |-> FALSE, oob |-> FALSE]
    ELSE read_loop(head % nr_events, tl % nr_events, 0, nr, nr_events + 1)

(* ------------------------------ state --------------------------------- *)

\* The index ioctx_add_table gave the context (ctx->id), the index of another
\* context of the same mm, and the size of the first table it allocates.
CtxId == 0
OtherId == 1
table_nr == 4

\* No io_getevents call is sleeping or about to; no do_io_submit over an
\* array is running.
GevIdle == [pc |-> "idle", min_nr |-> 0, nr |-> 0, timeout |-> "zero", i |-> 0,
            sig |-> FALSE, fault |-> FALSE, copied |-> 0, q |-> "off"]

wake_up_mut(q) == q

\* if (waitqueue_active(&ctx->wait)) wake_up(&ctx->wait), and wake_up_all,
\* on the wait-queue entry of the io_getevents caller: "off" the queue, "on"
\* it in TASK_INTERRUPTIBLE, or "woken", that is, taken off it and made
\* runnable by a wake-up.
wake_up(q) == IF q = "on" THEN "woken" ELSE q
SubIdle == [pc |-> "idle", iocbs |-> <<>>, nr |-> 0, i |-> 0, ret |-> 0, rv |-> 0]

\* The threads whose lock operations are followed.
LockThreads == {1, 2, 3}

\* No followed thread is on a path.
LkIdle == [t \in LockThreads |-> [path |-> "none", pos |-> 0, held |-> <<>>, rc |-> 0]]

\* The kioctx objects the mm can have at once, and its tasks.
MaxCtx == 3
Ctxs == 1 .. MaxCtx
Tasks == {1, 2}

\* mm->ioctx_table == NULL; table->table[i] == NULL.
NoTable == <<>>
NoCtx == 0

\* ctx->rq_wait: NULL, the wait of exit_aio, or the wait of the task in
\* io_destroy (the task's number).
NoWait == 0
ExitWait == -1

\* A kioctx that is not allocated.
KxFree ==
    [alloc |-> FALSE, max_reqs |-> 0, mmap_size |-> 0, dead |-> FALSE,
     users |-> 0, users_dying |-> FALSE, reqs |-> 0, reqs_dying |-> FALSE,
     rq_wait |-> NoWait, nreq |-> 0, cb |-> "none", unmapped |-> FALSE]
KxNone == [c \in Ctxs |-> KxFree]

\* A task outside io_setup and io_destroy; ret is what its last call
\* returned, nr the nr_events its io_setup was called with, wait its struct
\* ctx_rq_wait.
TaskIdle ==
    [pc |-> "idle", op |-> "none", ctx |-> NoCtx, ret |-> 0,
     nr |-> [hi |-> 0, lo |-> 0], wait |-> [count |-> 0, done |-> FALSE]]
SuIdle == [t \in Tasks |-> TaskIdle]

\* exit_aio has not been called.  present, killed and drained record the
\* contexts it found in the table, those it killed and those of them whose
\* requests count has drained; blocked that it had to wait.
XaNone ==
    [pc |-> "none", i |-> 0, skipped |-> 0,
     wait |-> [count |-> 0, done |-> FALSE],
     present |-> {}, killed |-> {}, drained |-> {}, blocked |-> FALSE]

\* No aio_read_events_ring runs.  Of a caller: the head, tail and ret of the
\* function, the number nr of events asked for, the events copied to its
\* buffer, and bad, the copy_to_user of the call that faults (0 for none).
\* returned is the events of the calls that did not fail, in the order
\* in which the calls released ring_lock.
ReaderIdle ==
    [pc |-> "idle", head |-> 0, tl |-> 0, ret |-> 0, nr |-> 0, ncopy |-> 0, bad |-> 0,
     buf |-> <<>>, head0 |-> 0]
ReapIdle == [ring_lock |-> 0, th |-> [t \in {1, 2} |-> ReaderIdle], returned |-> <<>>]

\* An mm whose ioctx_table is NULL, and the number MaxIns of contexts the
\* tasks allocate one after the other.  Of a task inside ioctx_add_table: its
\* context and the new_nr it computed.  made counts the contexts
\* allocated, ready is those whose ioctx_add_table has returned 0, dead
\* those kill_ioctx has marked.
MaxIns == 6
TabNone ==
    [table |-> <<>>, th |-> [t \in {1, 2} |-> [pc |-> "idle", ctx |-> 0, new_nr |-> 0, ret |-> 0]],
     id |-> [k \in 1 .. MaxIns |-> 0], ring_id |-> [k \in 1 .. MaxIns |-> 0],
     made |-> 0, ready |-> {}, dead |-> {}]

\* A context with one ring page, page 1, connected to its ring file.
\* content is the events stored in each page, put the pages whose reference
\* the context has dropped, published the events aio_complete has stored.
\* Of aio_migratepage: its arguments old, new and old->index, and rc.
\* order lists the locks aio_migratepage holds, oldest first.
MigPages == 1 .. 4
MigIdle ==
    [private_data |-> TRUE, private_lock |-> "free", ring_lock |-> "free",
     completion_lock |-> "free",
     ring_pages |-> <<1>>, content |-> [p \in MigPages |-> {}], put |-> {},
     published |-> 0,
     m |-> [pc |-> "idle", old |-> 0, new |-> 0, idx |-> 0, rc |-> 0, order |-> <<>>],
     c |-> [pc |-> "idle", page |-> 0],
     r |-> [pc |-> "idle", seen |-> {}],
     t |-> "idle",
     stray |-> FALSE, replaced |-> <<>>]

\* No IOCB_CMD_OPENAT request has been submitted.  Of a request: ki_data as
\* an int, whether ki_destruct_fn is set, the result passed to aio_complete,
\* the descriptor get_unused_fd_flags gave it (-1 for none), the number of
\* put_unused_fd calls made for it and whether fd_install was called.
\* open_fds is the descriptors marked in use, files those with a file.
OpenatIdle ==
    [pc |-> "idle", ki_data |-> 0, destruct |-> FALSE, res |-> 0, fd |-> -1, puts |-> 0,
     installed |-> FALSE]
OaIdle == [req |-> [r \in {1, 2} |-> OpenatIdle], open_fds |-> {0, 1, 2}, files |-> {0, 1, 2}]

\* No get_reqs_available or put_reqs_available runs on any CPU.
PercpuIdle ==
    [at |-> [c \in CPUs |-> [pc |-> "idle", fn |-> "none", avail |-> 0, ret |-> FALSE]],
     held |-> 0]

\* No io_cancel is between its spin_lock_irq(&ctx->ctx_lock) and its return.
KcIdle == [pc |-> "idle", r |-> 0, old |-> "NULL", ret |-> 0]

\* The threads that call io_cancel, and those that call io_destroy.
Cancellers == {1}
Destroyers == {1, 2}

ctxvars == <<nr_events, reqs_available, cpu, tail, completed_events, completion_lock,
             active_reqs, dead>>
refvars == <<users, users_dying, users_cb, reqs, reqs_dying, reqs_cb, rq_wait,
             mapped, table, free_work, nfreed>>
ringvars == <<ring_head, ring_tail, io_events>>
reqvars == <<spc, wpc, sret, kres, ki_cancel, ki_list>>
callvars == <<kret, dpc, dret, wait_count, wait_done>>
subhist == <<delta, refilled>>
pubhist == <<npub, pubrec, shadow, overwrote, last_store>>
histvars == <<subhist, pubhist, unreaped, ncancel, reap_bad, ndrain>>
sysvars == <<aio_nr, ring_id, gev, sub, ki_freed, uaf, wtask, result, peak>>
procvars == <<kc, lk, ioctx_tbl, kx, su, xa>>
stepvars == <<percpu, reap, tab, mig, oa>>
ghostvars == <<reaped, head_written>>
auxvars == <<stepvars, ghostvars>>
vars == <<ctxvars, refvars, ringvars, reqvars, callvars, histvars, sysvars, procvars, auxvars>>

(* ------------------------------ io_setup ------------------------------ *)

Max(a, b) == IF a > b THEN a ELSE b

\* ioctx_alloc: ctx->max_reqs for io_setup(nr, ...):
\* nr_events = max(nr_events, num_possible_cpus() * 4); nr_events *= 2.
ioctx_alloc_max_reqs(nr) == 2 * Max(nr, NCPU * 4)

\* aio_setup_ring: ctx->nr_events for a context of max_reqs requests.  Two
\* slots are added, the size is rounded up to whole pages, and every slot
\* that fits in the pages is used.  Sizes are counted in io_events: the
\* header takes AIO_EVENTS_OFFSET of them and a page holds
\* AIO_EVENTS_PER_PAGE.
aio_setup_ring(max_reqs) ==
    LET size == AIO_EVENTS_OFFSET + (max_reqs + 2)
        nr_pages == (size + AIO_EVENTS_PER_PAGE - 1) \div AIO_EVENTS_PER_PAGE
    IN AIO_EVENTS_PER_PAGE * nr_pages - AIO_EVENTS_OFFSET

io_setup_mut(nr) == nr + 1

\* ctx->nr_events after io_setup(nr, ...).
io_setup(nr) == aio_setup_ring(ioctx_alloc_max_reqs(nr))

\* The counters and the ring of a freshly set up context.
InitFresh ==
    /\ reqs_available = nr_events - 1
    /\ cpu = [c \in CPUs |-> 0]
    /\ tail = 0
    /\ completed_events = 0
    /\ reqs = 2 /\ reqs_dying = FALSE /\ reqs_cb = 0
    /\ ring_head = 0 /\ ring_tail = 0
    /\ io_events = [i \in Slots |-> ZeroEvent]
    /\ shadow = [i \in Slots |-> ZeroEvent]
    /\ unreaped = {}

\* The rest of the state after io_setup: nothing submitted, no call in
\* progress.
InitRest ==
    /\ completion_lock = <<>>
    /\ active_reqs = {}
    /\ dead = FALSE
    /\ users = 1 /\ users_dying = FALSE /\ users_cb = 0
    /\ rq_wait = 0
    /\ mapped = TRUE
    /\ table = TRUE
    /\ free_work = 0
    /\ nfreed = 0
    /\ spc = [r \in Reqs |-> "idle"]
    /\ wpc = [r \in Reqs |-> "none"]
    /\ sret = [r \in Reqs |-> 0]
    /\ kres = [r \in Reqs |-> 0]
    /\ ki_cancel = [r \in Reqs |-> NoCancel]
    /\ ki_list = [r \in Reqs |-> "NULL"]
    /\ kret = [p \in Cancellers |-> 0]
    /\ dpc = [d \in Destroyers |-> "idle"]
    /\ dret = [d \in Destroyers |-> 0]
    /\ wait_count = [d \in Destroyers |-> 0]
    /\ wait_done = [d \in Destroyers |-> FALSE]
    /\ delta = [r \in Reqs |-> 0]
    /\ refilled = [r \in Reqs |-> 0]
    /\ npub = [r \in Reqs |-> 0]
    /\ pubrec = [r \in Reqs |-> [obj |-> 0, data |-> 0]]
    /\ overwrote = FALSE
    /\ last_store = -1
    /\ ncancel = [r \in Reqs |-> 0]
    /\ reap_bad = FALSE
    /\ ndrain = 0
    /\ ring_id = CtxId
    /\ gev = GevIdle
    /\ sub = SubIdle
    /\ ki_freed = [r \in Reqs |-> FALSE]
    /\ uaf = {}
    /\ wtask = "clean"
    /\ result = ZeroEvent
    /\ peak = [r \in Reqs |-> 0]
    /\ kc = KcIdle
    /\ lk = LkIdle
    /\ ioctx_tbl = NoTable
    /\ kx = KxNone
    /\ su = SuIdle
    /\ xa = XaNone
    /\ percpu = PercpuIdle
    /\ reap = ReapIdle
    /\ tab = TabNone
    /\ mig = MigIdle
    /\ oa = OaIdle
    /\ reaped = FALSE
    /\ head_written = FALSE

\* The context as io_setup leaves it: ioctx_alloc, aio_setup_ring,
\* ioctx_add_table, and the put of the reference io_setup held; its ring
\* has nr slots.
\* aio_nr counts this context's max_reqs and as much for another context.
InitRing(nr) == nr_events = nr /\ InitFresh /\ InitRest /\ aio_nr = 2

Init == \E nr \in RingSizes : InitRing(nr)

(* ----------------------------- percpu_ref ----------------------------- *)

RefFires_mut(cnt, dying, n) == dying

\* percpu_ref_put: the release callback is called by the put that takes the
\* counter of a killed reference to zero.
RefFires(cnt, dying, n) == dying /\ cnt - n = 0

\* ctx->user_id: the address the context's ring is mapped at, which is its
\* handle.
user_id(c) == IF c = "ctx" THEN 8192 ELSE 12288

\* mm->ioctx_table->table: the context at its index while the slot has not
\* been cleared, the other context at its own, NULL elsewhere.
ioctx_table_mut ==
    [i \in 0 .. (table_nr - 1) |->
        IF i = CtxId THEN "ctx" ELSE IF i = OtherId THEN "other" ELSE "NULL"]

ioctx_table ==
    [i \in 0 .. (table_nr - 1) |->
        IF i = CtxId THEN (IF table THEN "ctx" ELSE "NULL")
        ELSE IF i = OtherId THEN "other" ELSE "NULL"]

lookup_ioctx_at_mut(ctx_id, id) ==
    IF id >= table_nr THEN "NULL" ELSE ioctx_table[id]

\* lookup_ioctx(ctx_id) once get_user has read id from the header at
\* address ctx_id: the context found, or NULL.
lookup_ioctx_at(ctx_id, id) ==
    IF id >= table_nr THEN "NULL"
    ELSE LET ctx == ioctx_table[id]
         IN IF ctx # "NULL" /\ user_id(ctx) = ctx_id THEN ctx ELSE "NULL"

\* lookup_ioctx on the context's own handle: it is found (and a users
\* reference taken) when the id in the header names the slot that holds it.
lookup_ioctx == lookup_ioctx_at(user_id("ctx"), ring_id) = "ctx"

\* spin_lock of ctx->ctx_lock can be taken: the io_cancel that is followed
\* step by step does not hold it (every other holder takes and releases it
\* within one step).
CtxLockFree == kc.pc = "idle"

\* percpu_ref_put(&ctx->users)
PutUsers ==
    /\ users' = users - 1
    /\ users_cb' = IF RefFires(users, users_dying, 1) THEN users_cb + 1 ELSE users_cb
    /\ UNCHANGED users_dying

\* percpu_ref_put(&ctx->reqs)
PutReqs ==
    /\ reqs' = reqs - 1
    /\ reqs_cb' = IF RefFires(reqs, reqs_dying, 1) THEN reqs_cb + 1 ELSE reqs_cb
    /\ UNCHANGED reqs_dying

(* ---------------------------- submission ------------------------------ *)

RestartCodes == {ERESTARTSYS, 513, 514, 516}

IS_ERR_VALUE(x) == x < 0 /\ x >= -MAX_ERRNO

\* The result aio_thread_fn and io_submit_one pass to aio_complete.
RestartToEintr(ret) == IF -ret \in RestartCodes THEN -EINTR ELSE ret

SubmitDisposition_mut(ret) ==
    IF -ret \in RestartCodes THEN "complete"
    ELSE IF IS_ERR_VALUE(ret) /\ ret # -EIOCBQUEUED THEN "fail"
    ELSE "complete"

\* What io_submit_one does with the value the opcode function returned.
SubmitDisposition(ret) ==
    IF ret = -EIOCBQUEUED THEN "queued"
    ELSE IF -ret \in RestartCodes THEN "complete"
    ELSE IF IS_ERR_VALUE(ret) THEN "fail"
    ELSE "complete"

\* What can happen after aio_get_req in io_submit_one: fget fails; or the
\* opcode function queues the iocb to a worker (aio_thread_queue_iocb), hands
\* it to a native asynchronous operation, or returns a value.
OpOutcomes ==
    { [kind |-> "nofile", ret |-> -EBADF],
      [kind |-> "thread", ret |-> -EIOCBQUEUED],
      [kind |-> "native", ret |-> -EIOCBQUEUED],
      [kind |-> "sync", ret |-> 16],
      [kind |-> "sync", ret |-> -ERESTARTSYS],
      [kind |-> "sync", ret |-> -EINVAL] }

\* The change of the counter total when the counters of CPU c become g.
TotalChange(c, g) == (g.glob + g.loc) - (reqs_available + cpu[c])

SetCounters(c, g) ==
    /\ reqs_available' = g.glob
    /\ cpu' = [cpu EXCEPT ![c] = g.loc]

\* do_io_submit: lookup_ioctx.
io_submit_lookup(r) ==
    /\ spc[r] = "idle" /\ wpc[r] = "none"
    /\ IF lookup_ioctx
       THEN /\ users' = users + 1
            /\ spc' = [spc EXCEPT ![r] = "s_one"]
            /\ sret' = [sret EXCEPT ![r] = 0]
       ELSE /\ sret' = [sret EXCEPT ![r] = -EINVAL]
            /\ UNCHANGED <<users, spc>>
    /\ UNCHANGED <<ctxvars, users_dying, users_cb, reqs, reqs_dying, reqs_cb, rq_wait,
                   mapped, table, free_work, nfreed, ringvars, wpc, kres, ki_cancel,
                   ki_list, callvars, histvars, sysvars, procvars, auxvars>>

\* io_submit_one: a reserved field is set, a size overflows, or the opcode
\* has no entry.
io_submit_one_invalid(r) ==
    /\ spc[r] = "s_one"
    /\ spc' = [spc EXCEPT ![r] = "s_ret"]
    /\ sret' = [sret EXCEPT ![r] = -EINVAL]
    /\ UNCHANGED <<ctxvars, refvars, ringvars, wpc, kres, ki_cancel, ki_list,
                   callvars, histvars, sysvars, procvars, auxvars>>

\* aio_get_req: the first get_reqs_available, on CPU c.
aio_get_req_first(r, c) ==
    /\ spc[r] = "s_one"
    /\ LET g == get_reqs_available(reqs_available, cpu[c]) IN
       /\ SetCounters(c, g)
       /\ spc' = [spc EXCEPT ![r] = IF g.ok THEN "s_fn" ELSE "s_refill"]
       /\ delta' = [delta EXCEPT ![r] = @ + TotalChange(c, g)]
    /\ UNCHANGED <<nr_events, tail, completed_events, completion_lock, active_reqs, dead, refvars,
                   ringvars, wpc, sret, kres, ki_cancel, ki_list, callvars, refilled,
                   pubhist, unreaped, ncancel, reap_bad, ndrain, sysvars, procvars, auxvars>>

\* aio_get_req: user_refill_reqs_available, on CPU c, under completion_lock.
user_refill_reqs_available(r, c) ==
    /\ spc[r] = "s_refill"
    /\ completion_lock = <<>>
    /\ LET credit == IF completed_events > 0
                     THEN refill_credit(ring_head, tail, completed_events)
                     ELSE 0
           g == IF credit > 0
                THEN put_reqs_available(reqs_available, cpu[c], credit)
                ELSE [glob |-> reqs_available, loc |-> cpu[c]]
       IN /\ completed_events' = completed_events - credit
          /\ SetCounters(c, g)
          /\ delta' = [delta EXCEPT ![r] = @ + TotalChange(c, g)]
          /\ refilled' = [refilled EXCEPT ![r] = @ + credit]
    /\ spc' = [spc EXCEPT ![r] = "s_get2"]
    /\ reaped' = (reaped /\ ~(completed_events > 0))
    /\ UNCHANGED <<nr_events, tail, completion_lock, active_reqs, dead, refvars, ringvars, wpc,
                   sret, kres, ki_cancel, ki_list, callvars, pubhist, unreaped,
                   ncancel, reap_bad, ndrain, sysvars, procvars, stepvars, head_written>>

\* aio_get_req: the second get_reqs_available, on CPU c; NULL (-EAGAIN in
\* io_submit_one) when it fails too.
aio_get_req_second(r, c) ==
    /\ spc[r] = "s_get2"
    /\ LET g == get_reqs_available(reqs_available, cpu[c]) IN
       /\ SetCounters(c, g)
       /\ spc' = [spc EXCEPT ![r] = IF g.ok THEN "s_fn" ELSE "s_ret"]
       /\ sret' = [sret EXCEPT ![r] = IF g.ok THEN @ ELSE -EAGAIN]
       /\ delta' = [delta EXCEPT ![r] = @ + TotalChange(c, g)]
    /\ UNCHANGED <<nr_events, tail, completed_events, completion_lock, active_reqs, dead, refvars,
                   ringvars, wpc, kres, ki_cancel, ki_list, callvars, refilled,
                   pubhist, unreaped, ncancel, reap_bad, ndrain, sysvars, procvars, auxvars>>

\* aio_get_req: kmem_cache_alloc fails; the slot goes back on CPU c.
aio_get_req_nomem(r, c) ==
    /\ spc[r] = "s_fn"
    /\ LET g == put_reqs_available(reqs_available, cpu[c], 1) IN
       /\ SetCounters(c, g)
       /\ delta' = [delta EXCEPT ![r] = @ + TotalChange(c, g)]
    /\ spc' = [spc EXCEPT ![r] = "s_ret"]
    /\ sret' = [sret EXCEPT ![r] = -EAGAIN]
    /\ UNCHANGED <<nr_events, tail, completed_events, completion_lock, active_reqs, dead, refvars,
                   ringvars, wpc, kres, ki_cancel, ki_list, callvars, refilled,
                   pubhist, unreaped, ncancel, reap_bad, ndrain, sysvars, procvars, auxvars>>

\* io_submit_one from the allocation of the aio_kiocb on: percpu_ref_get on
\* reqs, the opcode function with outcome op, and what the dispatcher does
\* with its return value (out_put_req runs on CPU c).
io_submit_one_fn(r, c, op) ==
    /\ spc[r] = "s_fn"
    /\ op.kind = "thread" => CtxLockFree
    /\ LET threaded == op.kind = "thread"
           disp == IF op.kind = "nofile" THEN "fail" ELSE SubmitDisposition(op.ret)
       IN
       \* kiocb_set_cancel_fn in aio_thread_queue_iocb, then queue_work
       /\ ki_list' = [ki_list EXCEPT ![r] = IF threaded THEN "linked" ELSE @]
       /\ active_reqs' = IF threaded THEN active_reqs \cup {r} ELSE active_reqs
       /\ ki_cancel' = [ki_cancel EXCEPT ![r] = IF threaded THEN CancelEarly ELSE @]
       /\ wpc' = [wpc EXCEPT ![r] = IF threaded THEN "queued"
                                    ELSE IF op.kind = "native" THEN "native" ELSE @]
       /\ CASE disp = "queued" ->
                 /\ reqs' = reqs + 1
                 /\ spc' = [spc EXCEPT ![r] = "s_ret"]
                 /\ sret' = [sret EXCEPT ![r] = 0]
                 /\ UNCHANGED <<reqs_available, cpu, kres, delta>>
            [] disp = "complete" ->
                 /\ reqs' = reqs + 1
                 /\ spc' = [spc EXCEPT ![r] = "c_event"]
                 /\ sret' = [sret EXCEPT ![r] = 0]
                 /\ kres' = [kres EXCEPT ![r] = RestartToEintr(op.ret)]
                 /\ UNCHANGED <<reqs_available, cpu, delta>>
            [] disp = "fail" ->
                 \* out_put_req: put_reqs_available, percpu_ref_put, kiocb_free
                 /\ LET g == put_reqs_available(reqs_available, cpu[c], 1) IN
                    /\ SetCounters(c, g)
                    /\ delta' = [delta EXCEPT ![r] = @ + TotalChange(c, g)]
                 /\ spc' = [spc EXCEPT ![r] = "s_ret"]
                 /\ sret' = [sret EXCEPT ![r] = op.ret]
                 /\ UNCHANGED <<reqs, kres>>
    /\ UNCHANGED <<nr_events, tail, completed_events, completion_lock, dead, users, users_dying,
                   users_cb, reqs_dying, reqs_cb, rq_wait, mapped, table, free_work,
                   nfreed, ringvars, callvars, refilled, pubhist, unreaped, ncancel,
                   reap_bad, ndrain, sysvars, procvars, auxvars>>

\* do_io_submit: percpu_ref_put(&ctx->users) and return to userspace.
io_submit_return(r) ==
    /\ spc[r] = "s_ret"
    /\ PutUsers
    /\ spc' = [spc EXCEPT ![r] = IF sret[r] = 0 THEN "ret_ok" ELSE "idle"]
    /\ sret' = [sret EXCEPT ![r] = 0]
    /\ delta' = [delta EXCEPT ![r] = 0]
    /\ refilled' = [refilled EXCEPT ![r] = 0]
    /\ UNCHANGED <<ctxvars, reqs, reqs_dying, reqs_cb, rq_wait, mapped, table,
                   free_work, nfreed, ringvars, wpc, kres, ki_cancel, ki_list,
                   callvars, pubhist, unreaped, ncancel, reap_bad, ndrain, sysvars, procvars, auxvars>>

(* ---------------------------- aio_complete ---------------------------- *)

\* aio_complete runs in the submitter (who = "s": the opcode function
\* returned a value) or in the operation's own context (who = "w": worker
\* thread or interrupt).
PcOf(r, who) == IF who = "s" THEN spc[r] ELSE wpc[r]

SetPc(r, who, v) ==
    IF who = "s"
    THEN spc' = [spc EXCEPT ![r] = v] /\ UNCHANGED wpc
    ELSE wpc' = [wpc EXCEPT ![r] = v] /\ UNCHANGED spc

\* The io_event aio_complete stores for the request.
EventOf(r, res) == [obj |-> UserIocb(r), data |-> UserData(r), res |-> res, res2 |-> 0]

\* if (++tail >= ctx->nr_events) tail = 0
NextTail(t) == IF t + 1 >= nr_events THEN 0 ELSE t + 1

EventPos_mut(t) == NextTail(t)

\* Index of the io_event at pos = tail + AIO_EVENTS_OFFSET.
EventPos(t) == t

CompletionLockFree_mut == TRUE

\* spin_lock_irqsave(&ctx->completion_lock) can be taken.
CompletionLockFree == completion_lock = <<>>

\* aio_complete up to the event store: list_del under ctx_lock when the
\* iocb is on a list, then take completion_lock and store the event at the
\* tail.
aio_complete_event(r, who) ==
    /\ PcOf(r, who) = "c_event"
    /\ ki_list[r] # "NULL" => CtxLockFree
    /\ CompletionLockFree
    /\ IF ki_list[r] # "NULL"
       THEN /\ active_reqs' = active_reqs \ {r}
            /\ ki_list' = [ki_list EXCEPT ![r] = "POISON"]
       ELSE UNCHANGED <<active_reqs, ki_list>>
    /\ completion_lock' = <<r>>
    /\ io_events' = [io_events EXCEPT ![EventPos(tail)] = EventOf(r, kres[r])]
    /\ overwrote' = (overwrote \/ EventPos(tail) \in unreaped)
    /\ last_store' = EventPos(tail)
    /\ SetPc(r, who, "c_tail")
    /\ UNCHANGED <<nr_events, reqs_available, cpu, tail, completed_events, dead, refvars,
                   ring_head, ring_tail, sret, kres, ki_cancel, callvars, subhist,
                   npub, pubrec, shadow, unreaped, ncancel, reap_bad, ndrain, sysvars, procvars, auxvars>>

\* aio_complete: store ctx->tail and ring->tail, count the completed event,
\* refill (on CPU c) when more than one is counted, and unlock.
aio_complete_tail(r, who, c) ==
    /\ PcOf(r, who) = "c_tail"
    /\ tail' = NextTail(tail)
    /\ ring_tail' = NextTail(tail)
    /\ LET completed == completed_events + 1
           credit == IF completed > 1
                     THEN refill_credit(ring_head, NextTail(tail), completed)
                     ELSE 0
           g == IF credit > 0
                THEN put_reqs_available(reqs_available, cpu[c], credit)
                ELSE [glob |-> reqs_available, loc |-> cpu[c]]
       IN /\ completed_events' = completed - credit
          /\ SetCounters(c, g)
    /\ completion_lock' = <<>>
    /\ npub' = [npub EXCEPT ![r] = @ + 1]
    /\ pubrec' = [pubrec EXCEPT ![r] = [obj |-> io_events[tail].obj,
                                        data |-> io_events[tail].data]]
    /\ shadow' = [shadow EXCEPT ![tail] = EventOf(r, kres[r])]
    /\ unreaped' = unreaped \cup {tail}
    /\ SetPc(r, who, "c_free")
    /\ reaped' = (reaped /\ ~(completed_events + 1 > 1))
    /\ UNCHANGED <<nr_events, active_reqs, dead, refvars, ring_head, io_events, sret, kres,
                   ki_cancel, ki_list, callvars, subhist, overwrote, last_store,
                   ncancel, reap_bad, ndrain, sysvars, procvars, stepvars, head_written>>

\* The request went to the worker fallback: aio_thread_queue_iocb installed
\* a cancel function, and ki_cancel is never reset to NULL afterwards.
Threaded(r) == ki_cancel[r] # NoCancel

\* aio_complete: kiocb_free (kmem_cache_free of the aio_kiocb), wake the
\* waiters, percpu_ref_put(&ctx->reqs).  aio_thread_fn goes on after the
\* call returns; an interrupt or the submitter is done with the request.
aio_complete_free(r, who) ==
    /\ PcOf(r, who) = "c_free"
    /\ PutReqs
    /\ kres' = [kres EXCEPT ![r] = 0]
    /\ ki_freed' = [ki_freed EXCEPT ![r] = TRUE]
    /\ gev' = [gev EXCEPT !.q = wake_up(@)]
    /\ SetPc(r, who, IF who = "s" THEN "s_ret"
                     ELSE IF Threaded(r) THEN "t_cleanup" ELSE "done")
    /\ UNCHANGED <<ctxvars, users, users_dying, users_cb, rq_wait, mapped, table,
                   free_work, nfreed, ringvars, sret, ki_cancel, ki_list, callvars,
                   histvars, aio_nr, ring_id, sub, uaf, wtask, result, peak,
                   procvars, auxvars>>

(* ------------------------------ workers ------------------------------- *)

WorkerRuns_mut(old_cancel) == TRUE

\* aio_thread_fn: the work function is called unless the cmpxchg found the
\* iocb cancelled.
WorkerRuns(old_cancel) == old_cancel # KIOCB_CANCELLED

\* aio_thread_fn up to the call of ki_work_fn: the cmpxchg from the early
\* to the late cancel function; -EINTR when the iocb was cancelled early.
aio_thread_fn_start(r) ==
    /\ wpc[r] = "queued"
    /\ ki_cancel' = [ki_cancel EXCEPT ![r] = IF @ = CancelEarly THEN CancelLate ELSE @]
    /\ IF WorkerRuns(ki_cancel[r])
       THEN /\ wpc' = [wpc EXCEPT ![r] = "running"]
            /\ UNCHANGED kres
       ELSE /\ wpc' = [wpc EXCEPT ![r] = "c_event"]
            /\ kres' = [kres EXCEPT ![r] = -EINTR]
    /\ UNCHANGED <<ctxvars, refvars, ringvars, spc, sret, ki_list, callvars, histvars, sysvars, procvars, auxvars>>

\* force_sig(SIGKILL) of the late cancel function reached the worker.
Signalled(r) == wpc[r] = "running" /\ ki_cancel[r] = KIOCB_CANCELLED

\* What ki_work_fn can return: the operation's result, or a restart code
\* when the fatal signal interrupted it.
WorkRets(r) == IF Signalled(r) THEN {16, -ERESTARTSYS} ELSE {16}

\* aio_thread_fn: ki_work_fn returns ret; restart codes become -EINTR.
aio_thread_fn_work(r, ret) ==
    /\ wpc[r] = "running"
    /\ ret \in WorkRets(r)
    /\ kres' = [kres EXCEPT ![r] = RestartToEintr(ret)]
    /\ wpc' = [wpc EXCEPT ![r] = "c_event"]
    /\ UNCHANGED <<ctxvars, refvars, ringvars, spc, sret, ki_cancel, ki_list,
                   callvars, histvars, sysvars, procvars, auxvars>>

\* What a read of iocb->ki_cred, ki_files and ki_fs can return: what
\* aio_thread_queue_iocb stored there, or, once the aio_kiocb is back in
\* the slab, anything else.
ReadsOfIocb(r) == IF ki_freed[r] THEN {"stored", "other"} ELSE {"stored"}

\* aio_thread_fn after aio_complete has returned: flush_signals, then the
\* tests of iocb->ki_cred, iocb->ki_files and iocb->ki_fs and the puts and
\* restores they guard.  With the stored values the worker task gets its
\* own cred, files and fs back; with other values it keeps the submitter's
\* or drops references it does not hold.
aio_thread_fn_cleanup(r, seen) ==
    /\ wpc[r] = "t_cleanup"
    /\ seen \in ReadsOfIocb(r)
    /\ uaf' = IF ki_freed[r] THEN uaf \cup {r} ELSE uaf
    /\ wtask' = IF seen = "stored" THEN wtask ELSE "corrupt"
    /\ wpc' = [wpc EXCEPT ![r] = "done"]
    /\ UNCHANGED <<ctxvars, refvars, ringvars, spc, sret, kres, ki_cancel, ki_list,
                   callvars, histvars, aio_nr, ring_id, gev, sub, ki_freed, result,
                   peak,
                   procvars, auxvars>>

\* A natively asynchronous operation (aio_rw returning -EIOCBQUEUED from
\* the file's read_iter or write_iter) calls ki_complete with ret.
native_complete(r, ret) ==
    /\ wpc[r] = "native"
    /\ kres' = [kres EXCEPT ![r] = ret]
    /\ wpc' = [wpc EXCEPT ![r] = "c_event"]
    /\ UNCHANGED <<ctxvars, refvars, ringvars, spc, sret, ki_cancel, ki_list,
                   callvars, histvars, sysvars, procvars, auxvars>>

(* ---------------------------- cancellation ---------------------------- *)

\* Both cancel functions of the worker fallback return 0 (the late one
\* always finds ki_cancel_task, which aio_thread_fn sets before installing
\* it).
CancelFnRet(fn) == 0

kiocb_cancel_mut(val) ==
    IF val = NoCancel
    THEN [new |-> val, called |-> FALSE, ret |-> -EINVAL]
    ELSE [new |-> KIOCB_CANCELLED, called |-> TRUE, ret |-> CancelFnRet(val)]

\* kiocb_cancel on a ki_cancel holding val: the value it leaves there,
\* whether it called the cancel function, and what it returns.
kiocb_cancel(val) ==
    IF val = NoCancel \/ val = KIOCB_CANCELLED
    THEN [new |-> val, called |-> FALSE, ret |-> -EINVAL]
    ELSE [new |-> KIOCB_CANCELLED, called |-> TRUE, ret |-> CancelFnRet(val)]

\* The aio_key io_submit_one stores in the user's iocb, and what a user can
\* have in that field when it calls io_cancel.
KIOCB_KEY == 0
Keys == {KIOCB_KEY, 1}

lookup_kiocb_mut(r, key) == IF key # KIOCB_KEY THEN 0 ELSE r

\* lookup_kiocb for the user iocb of request r: the request when the key is
\* right and its aio_kiocb is on active_reqs, 0 (NULL) otherwise.
lookup_kiocb(r, key) ==
    IF key # KIOCB_KEY THEN 0
    ELSE IF r \in active_reqs THEN r ELSE 0

\* io_cancel(ctx_id, iocb of request r, result) with key in iocb->aio_key:
\* lookup_ioctx, lookup_kiocb and kiocb_cancel under ctx_lock, the put of
\* the users reference, and the return value.
io_cancel(p, r, key) ==
    /\ CtxLockFree
    /\ IF lookup_ioctx
       THEN LET found == lookup_kiocb(r, key) # 0
                k == IF found THEN kiocb_cancel(ki_cancel[r])
                     ELSE [new |-> ki_cancel[r], called |-> FALSE, ret |-> -EINVAL]
            IN /\ ki_cancel' = [ki_cancel EXCEPT ![r] = k.new]
               /\ ncancel' = [ncancel EXCEPT ![r] = IF k.called THEN @ + 1 ELSE @]
               /\ kret' = [kret EXCEPT ![p] = IF k.ret = 0 THEN -EINPROGRESS ELSE k.ret]
       ELSE /\ kret' = [kret EXCEPT ![p] = -EINVAL]
            /\ UNCHANGED <<ki_cancel, ncancel>>
    /\ UNCHANGED <<ctxvars, refvars, ringvars, spc, wpc, sret, kres, ki_list, dpc,
                   dret, wait_count, wait_done, subhist, pubhist, unreaped, reap_bad,
                   ndrain, sysvars, procvars, auxvars>>

\* kiocb_cancel after it has read cancel from ki_cancel (ACCESS_ONCE or the
\* value a failed cmpxchg returned): -EINVAL for NULL and KIOCB_CANCELLED,
\* the cmpxchg otherwise.
kiocb_cancel_read(r, cancel) ==
    IF cancel = NoCancel \/ cancel = KIOCB_CANCELLED
    THEN [pc |-> "k_unlock", r |-> r, old |-> cancel, ret |-> -EINVAL]
    ELSE [pc |-> "k_cas", r |-> r, old |-> cancel, ret |-> 0]

\* io_cancel(ctx_id, iocb of request r, result) up to the first read of
\* ki_cancel: lookup_ioctx, spin_lock_irq(&ctx->ctx_lock), lookup_kiocb, and
\* kiocb_cancel's ACCESS_ONCE.
io_cancel_lock(p, r, key) ==
    /\ kc.pc = "idle"
    /\ IF lookup_ioctx
       THEN /\ users' = users + 1
            /\ kc' = IF lookup_kiocb(r, key) # 0
                     THEN kiocb_cancel_read(r, ki_cancel[r])
                     ELSE [pc |-> "k_unlock", r |-> r, old |-> NoCancel,
                           ret |-> -EINVAL]
            /\ UNCHANGED kret
       ELSE /\ kret' = [kret EXCEPT ![p] = -EINVAL]
            /\ UNCHANGED <<users, kc>>
    /\ UNCHANGED <<ctxvars, users_dying, users_cb, reqs, reqs_dying, reqs_cb, rq_wait,
                   mapped, table, free_work, nfreed, ringvars, reqvars, dpc, dret,
                   wait_count, wait_done, histvars, sysvars,
                   lk, ioctx_tbl, kx, su, xa, auxvars>>

\* kiocb_cancel: cancel = cmpxchg(&kiocb->ki_cancel, old, KIOCB_CANCELLED),
\* and the loop test on what it returned.
kiocb_cancel_cmpxchg ==
    /\ kc.pc = "k_cas"
    /\ IF ki_cancel[kc.r] = kc.old
       THEN /\ ki_cancel' = [ki_cancel EXCEPT ![kc.r] = KIOCB_CANCELLED]
            /\ kc' = [kc EXCEPT !.pc = "k_call"]
       ELSE /\ kc' = kiocb_cancel_read(kc.r, ki_cancel[kc.r])
            /\ UNCHANGED ki_cancel
    /\ UNCHANGED <<ctxvars, refvars, ringvars, spc, wpc, sret, kres, ki_list, callvars,
                   histvars, sysvars,
                   lk, ioctx_tbl, kx, su, xa, auxvars>>

\* kiocb_cancel: return cancel(&kiocb->common), the function the cmpxchg
\* replaced.
kiocb_cancel_call ==
    /\ kc.pc = "k_call"
    /\ ncancel' = [ncancel EXCEPT ![kc.r] = @ + 1]
    /\ kc' = [kc EXCEPT !.pc = "k_unlock", !.ret = CancelFnRet(kc.old)]
    /\ UNCHANGED <<ctxvars, refvars, ringvars, reqvars, callvars, subhist, pubhist,
                   unreaped, reap_bad, ndrain, sysvars,
                   lk, ioctx_tbl, kx, su, xa, auxvars>>

\* io_cancel from spin_unlock_irq on: -EINPROGRESS for 0, the put of the
\* users reference, and the return.
io_cancel_unlock(p) ==
    /\ kc.pc = "k_unlock"
    /\ kret' = [kret EXCEPT ![p] = IF kc.ret = 0 THEN -EINPROGRESS ELSE kc.ret]
    /\ PutUsers
    /\ kc' = KcIdle
    /\ UNCHANGED <<ctxvars, reqs, reqs_dying, reqs_cb, rq_wait, mapped, table,
                   free_work, nfreed, ringvars, reqvars, dpc, dret, wait_count,
                   wait_done, histvars, sysvars,
                   lk, ioctx_tbl, kx, su, xa, auxvars>>

(* ------------------------------ teardown ------------------------------ *)

\* io_destroy: lookup_ioctx; init_completion and atomic_set(&wait.count, 1).
io_destroy_lookup(d) ==
    /\ dpc[d] = "idle"
    /\ IF lookup_ioctx
       THEN /\ users' = users + 1
            /\ dpc' = [dpc EXCEPT ![d] = "d_kill"]
            /\ wait_count' = [wait_count EXCEPT ![d] = 1]
            /\ dret' = [dret EXCEPT ![d] = 0]
       ELSE /\ dret' = [dret EXCEPT ![d] = -EINVAL]
            /\ UNCHANGED <<users, dpc, wait_count>>
    /\ UNCHANGED <<ctxvars, users_dying, users_cb, reqs, reqs_dying, reqs_cb, rq_wait,
                   mapped, table, free_work, nfreed, ringvars, reqvars, kret,
                   wait_done, histvars, sysvars, procvars, auxvars>>

\* aio_nr_sub: aio_nr less nr, or 0 when that would wrap around.
aio_nr_sub(cur, nr) == IF cur - nr < 0 THEN 0 ELSE cur - nr

already_dead_mut == FALSE

\* What atomic_xchg(&ctx->dead, 1) returns in kill_ioctx.
already_dead == dead

\* kill_ioctx under mm->ioctx_lock: atomic_xchg(&ctx->dead, 1); the loser
\* returns -EINVAL, the winner clears the table slot.
kill_ioctx_xchg(d) ==
    /\ dpc[d] = "d_kill"
    /\ dead' = TRUE
    /\ IF already_dead
       THEN /\ dret' = [dret EXCEPT ![d] = -EINVAL]
            /\ dpc' = [dpc EXCEPT ![d] = "d_put"]
            /\ UNCHANGED table
       ELSE /\ table' = FALSE
            /\ dpc' = [dpc EXCEPT ![d] = "d_kill2"]
            /\ UNCHANGED dret
    /\ UNCHANGED <<nr_events, reqs_available, cpu, tail, completed_events, completion_lock,
                   active_reqs, users, users_dying, users_cb, reqs, reqs_dying,
                   reqs_cb, rq_wait, mapped, free_work, nfreed, ringvars, reqvars,
                   kret, wait_count, wait_done, histvars, sysvars, procvars, auxvars>>

\* kill_ioctx after the unlock: wake_up_all, aio_nr_sub(ctx->max_reqs), vm_munmap of the
\* ring, ctx->rq_wait = wait, percpu_ref_kill(&ctx->users), which drops the
\* initial reference.
kill_ioctx_rest(d) ==
    /\ dpc[d] = "d_kill2"
    /\ gev' = [gev EXCEPT !.q = wake_up(@)]
    /\ aio_nr' = aio_nr_sub(aio_nr, 1)
    /\ mapped' = FALSE
    /\ rq_wait' = d
    /\ users_dying' = TRUE
    /\ users' = users - 1
    /\ users_cb' = IF RefFires(users, TRUE, 1) THEN users_cb + 1 ELSE users_cb
    /\ dpc' = [dpc EXCEPT ![d] = "d_put"]
    /\ UNCHANGED <<ctxvars, reqs, reqs_dying, reqs_cb, table, free_work, nfreed,
                   ringvars, reqvars, kret, dret, wait_count, wait_done,
                   histvars, ring_id, sub, ki_freed, uaf, wtask, result, peak,
                   procvars, auxvars>>

\* io_destroy: percpu_ref_put(&ioctx->users) after kill_ioctx.
io_destroy_put(d) ==
    /\ dpc[d] = "d_put"
    /\ PutUsers
    /\ dpc' = [dpc EXCEPT ![d] = IF dret[d] = 0 THEN "d_wait" ELSE "d_done"]
    /\ UNCHANGED <<ctxvars, reqs, reqs_dying, reqs_cb, rq_wait, mapped, table,
                   free_work, nfreed, ringvars, reqvars, kret, dret,
                   wait_count, wait_done, histvars, sysvars, procvars, auxvars>>

\* io_destroy: wait_for_completion(&wait.comp) returns.
io_destroy_wait(d) ==
    /\ dpc[d] = "d_wait"
    /\ wait_done[d]
    /\ dpc' = [dpc EXCEPT ![d] = "d_done"]
    /\ UNCHANGED <<ctxvars, refvars, ringvars, reqvars, kret, dret,
                   wait_count, wait_done, histvars, sysvars, procvars, auxvars>>

\* The cancel loop of free_ioctx_users over a set of requests: ki_cancel
\* and the number of cancel functions called, per request.
DrainCancel(r) == IF r \in active_reqs THEN kiocb_cancel(ki_cancel[r])
                  ELSE [new |-> ki_cancel[r], called |-> FALSE, ret |-> 0]

\* free_ioctx_users, the release callback of users: list_del_init and
\* kiocb_cancel of every active request under ctx_lock, then
\* percpu_ref_kill and percpu_ref_put of reqs.
free_ioctx_users ==
    /\ users_cb > 0
    /\ CtxLockFree
    /\ users_cb' = users_cb - 1
    /\ ki_list' = [r \in Reqs |-> IF r \in active_reqs THEN "SELF" ELSE ki_list[r]]
    /\ ki_cancel' = [r \in Reqs |-> DrainCancel(r).new]
    /\ ncancel' = [r \in Reqs |-> IF DrainCancel(r).called THEN ncancel[r] + 1
                                  ELSE ncancel[r]]
    /\ active_reqs' = {}
    /\ reqs_dying' = TRUE
    /\ reqs' = reqs - 2
    /\ reqs_cb' = IF RefFires(reqs, TRUE, 2) THEN reqs_cb + 1 ELSE reqs_cb
    /\ ndrain' = ndrain + 1
    /\ UNCHANGED <<nr_events, reqs_available, cpu, tail, completed_events, completion_lock, dead,
                   users, users_dying, rq_wait, mapped, table, free_work, nfreed,
                   ringvars, spc, wpc, sret, kres, callvars, subhist, pubhist,
                   unreaped, reap_bad, sysvars, procvars, auxvars>>

\* free_ioctx_reqs, the release callback of reqs: complete the waiting
\* io_destroy and schedule free_ioctx.
free_ioctx_reqs ==
    /\ reqs_cb > 0
    /\ reqs_cb' = reqs_cb - 1
    /\ IF rq_wait # 0 /\ wait_count[rq_wait] - 1 = 0
       THEN /\ wait_count' = [wait_count EXCEPT ![rq_wait] = @ - 1]
            /\ wait_done' = [wait_done EXCEPT ![rq_wait] = TRUE]
       ELSE /\ wait_count' = IF rq_wait # 0
                             THEN [wait_count EXCEPT ![rq_wait] = @ - 1]
                             ELSE wait_count
            /\ UNCHANGED wait_done
    /\ free_work' = free_work + 1
    /\ UNCHANGED <<ctxvars, users, users_dying, users_cb, reqs, reqs_dying, rq_wait,
                   mapped, table, nfreed, ringvars, reqvars, kret, dpc,
                   dret, histvars, sysvars, procvars, auxvars>>

\* free_ioctx, the work item: the ring, the per-CPU counters and the kioctx
\* are freed.
free_ioctx ==
    /\ free_work > 0
    /\ free_work' = free_work - 1
    /\ nfreed' = nfreed + 1
    /\ UNCHANGED <<ctxvars, users, users_dying, users_cb, reqs, reqs_dying, reqs_cb,
                   rq_wait, mapped, table, ringvars, reqvars, callvars, histvars, sysvars, procvars, auxvars>>

(* ------------------------------ reaping ------------------------------- *)

\* The slots a read of n records starting at head h copies out.
SlotsRead(h, n) == { (h + k) % nr_events : k \in 0 .. (n - 1) }

\* io_getevents(ctx_id, 0, nr, events, zero timeout): lookup_ioctx,
\* aio_read_events_ring once under ring_lock, percpu_ref_put.
io_getevents(nr) ==
    /\ lookup_ioctx
    /\ LET rd == aio_read_events_ring(ring_head, ring_tail, nr) IN
       /\ ring_head' = rd.head
       /\ unreaped' = unreaped \ SlotsRead(ring_head % nr_events, rd.ret)
       /\ reap_bad' = (reap_bad \/ rd.hang \/ rd.oob \/ rd.ret \notin 0 .. nr
                         \/ (ring_head # ring_tail /\ rd.head \notin Slots))
    /\ reaped' = (reaped \/ aio_read_events_ring(ring_head, ring_tail, nr).ret > 0)
    /\ UNCHANGED <<ctxvars, refvars, ring_tail, io_events, reqvars, callvars, subhist,
                   pubhist, ncancel, ndrain, sysvars, procvars, stepvars, head_written>>

\* ring->head as a user program can store it through its mapping: every
\* residue modulo nr_events, in and out of the ring, and a large value.  The
\* code uses an unsigned head only modulo nr_events or compared with the
\* tail; 2^30 stands for the values up to 2^32 - 1, which the checker's
\* integers do not hold.
HostileHeads == (0 .. 4) \cup {2^30}

\* A store to ring->head from user space.
user_write_head(v) ==
    /\ mapped
    /\ ring_head' = v
    /\ head_written' = TRUE
    /\ UNCHANGED <<ctxvars, refvars, ring_tail, io_events, reqvars, callvars, histvars,
                   sysvars, procvars, stepvars, reaped>>

\* A store to ring->id from user space (or to whatever the user has mapped
\* at the handle's address once the ring is unmapped).
HostileIds == (0 .. table_nr) \cup {2^30}

user_write_id(v) ==
    /\ ring_id' = v
    /\ UNCHANGED <<ctxvars, refvars, ringvars, reqvars, callvars, histvars,
                   aio_nr, gev, sub, ki_freed, uaf, wtask, result, peak,
                   procvars, auxvars>>

\* The timeout argument of io_getevents: NULL, a zero timespec, a positive one.
Timeouts == {"null", "zero", "finite"}

\* io_getevents(ctx_id, min_nr, nr, events, timeout) up to read_events:
\* lookup_ioctx and the check of min_nr against nr.
io_getevents_call(min_nr, nr, timeout) ==
    /\ gev.pc = "idle"
    /\ IF lookup_ioctx
       THEN /\ users' = users + 1
            /\ gev' = IF min_nr <= nr /\ min_nr >= 0
                      THEN [GevIdle EXCEPT !.pc = "g_read", !.min_nr = min_nr,
                                           !.nr = nr, !.timeout = timeout]
                      ELSE [GevIdle EXCEPT !.pc = "g_put", !.min_nr = min_nr,
                                           !.nr = nr, !.timeout = timeout,
                                           !.i = -EINVAL]
       ELSE /\ gev' = [GevIdle EXCEPT !.pc = "g_fail", !.min_nr = min_nr, !.nr = nr,
                                      !.timeout = timeout, !.i = -EINVAL]
            /\ UNCHANGED users
    /\ UNCHANGED <<ctxvars, users_dying, users_cb, reqs, reqs_dying, reqs_cb, rq_wait,
                   mapped, table, free_work, nfreed, ringvars, reqvars, callvars,
                   histvars, aio_nr, ring_id, sub, ki_freed, uaf, wtask, result, peak,
                   procvars, auxvars>>

aio_read_events_cond_mut(ret, i, min_nr) == ret < 0 \/ i >= 1 \/ min_nr = 0

\* return ret < 0 || *i >= min_nr
aio_read_events_cond(ret, i, min_nr) == ret < 0 \/ i >= min_nr

\* aio_read_events, the condition read_events waits on: one
\* aio_read_events_ring for the nr - *i events still wanted (its
\* copy_to_user fails when fault), the dead check, and the test of *i
\* against min_nr; then read_events returns or sleeps.  sig: a signal is
\* pending when read_events is about to return 0.
aio_read_events(fault, sig) ==
    /\ gev.pc = "g_read"
    /\ LET rd == aio_read_events_ring(ring_head, ring_tail, gev.nr - gev.i)
           faulted == fault /\ rd.ret > 0
           ret0 == IF faulted THEN -EFAULT ELSE rd.ret
           i1 == IF ret0 > 0 THEN gev.i + ret0 ELSE gev.i
           ret1 == IF dead THEN -EINVAL ELSE ret0
           i2 == IF i1 = 0 THEN ret1 ELSE i1
           leave == aio_read_events_cond(ret1, i2, gev.min_nr) \/ gev.timeout = "zero"
           intr == leave /\ i2 = 0 /\ sig
       IN /\ ring_head' = IF faulted THEN ring_head ELSE rd.head
          /\ unreaped' = IF faulted THEN unreaped
                         ELSE unreaped \ SlotsRead(ring_head % nr_events, rd.ret)
          /\ reap_bad' = (reap_bad \/ rd.hang \/ rd.oob
                            \/ rd.ret \notin 0 .. (gev.nr - gev.i))
          /\ gev' = [gev EXCEPT !.i = IF intr THEN -EINTR ELSE i2,
                                !.pc = IF leave THEN "g_put" ELSE "g_sleep",
                                !.fault = @ \/ faulted,
                                !.sig = @ \/ intr,
                                !.copied = IF ret0 > 0 THEN @ + ret0 ELSE @]
    /\ reaped' = (reaped \/ (~fault /\ aio_read_events_ring(ring_head, ring_tail, gev.nr - gev.i).ret > 0))
    /\ UNCHANGED <<ctxvars, refvars, ring_tail, io_events, reqvars, callvars, subhist,
                   pubhist, ncancel, ndrain, aio_nr, ring_id, sub, ki_freed, uaf,
                   wtask, result, peak,
                   procvars, stepvars, head_written>>

\* The sleeper is woken (wake_up in aio_complete, wake_up_all in kill_ioctx)
\* and evaluates the condition again.
io_getevents_wake ==
    /\ gev.pc = "g_sleep"
    /\ gev' = [gev EXCEPT !.pc = "g_read"]
    /\ UNCHANGED <<ctxvars, refvars, ringvars, reqvars, callvars, histvars,
                   aio_nr, ring_id, sub, ki_freed, uaf, wtask, result, peak,
                   procvars, auxvars>>

\* A signal ends the sleep: read_events returns what it has, -EINTR when
\* that is nothing.
io_getevents_signal ==
    /\ gev.pc = "g_sleep"
    /\ gev' = [gev EXCEPT !.pc = "g_put", !.sig = TRUE,
                          !.i = IF @ = 0 THEN -EINTR ELSE @]
    /\ UNCHANGED <<ctxvars, refvars, ringvars, reqvars, callvars, histvars,
                   aio_nr, ring_id, sub, ki_freed, uaf, wtask, result, peak,
                   procvars, auxvars>>

\* The timeout expires: read_events returns what it has.
io_getevents_timeout ==
    /\ gev.pc = "g_sleep" /\ gev.timeout = "finite"
    /\ gev' = [gev EXCEPT !.pc = "g_put"]
    /\ UNCHANGED <<ctxvars, refvars, ringvars, reqvars, callvars, histvars,
                   aio_nr, ring_id, sub, ki_freed, uaf, wtask, result, peak,
                   procvars, auxvars>>

\* io_getevents: percpu_ref_put(&ioctx->users) when the lookup had found
\* the context, and return.
io_getevents_return ==
    /\ gev.pc \in {"g_put", "g_fail"}
    /\ IF gev.pc = "g_put" THEN PutUsers
       ELSE UNCHANGED <<users, users_dying, users_cb>>
    /\ gev' = GevIdle
    /\ UNCHANGED <<ctxvars, reqs, reqs_dying, reqs_cb, rq_wait, mapped, table,
                   free_work, nfreed, ringvars, reqvars, callvars, histvars,
                   aio_nr, ring_id, sub, ki_freed, uaf, wtask, result, peak,
                   procvars, auxvars>>

\* read_events, wait_event_interruptible_hrtimeout: the condition was
\* false, so prepare_to_wait_event puts the caller on ctx->wait in
\* TASK_INTERRUPTIBLE; the condition is evaluated next.
read_events_prepare ==
    /\ gev.pc = "g_sleep" /\ gev.q = "off"
    /\ gev' = [gev EXCEPT !.pc = "g_read", !.q = "on"]
    /\ UNCHANGED <<ctxvars, refvars, ringvars, reqvars, callvars, histvars,
                   aio_nr, ring_id, sub, ki_freed, uaf, wtask, result, peak,
                   procvars, auxvars>>

\* read_events, wait_event_interruptible_hrtimeout: schedule() returns
\* because a wake-up made the caller runnable, or at once because the
\* mutex_lock or copy_to_user of the condition had slept and left the task
\* in TASK_RUNNING (flipped); prepare_to_wait_event again, then the
\* condition.
read_events_schedule(flipped) ==
    /\ gev.pc = "g_sleep"
    /\ gev.q = "woken" \/ (gev.q = "on" /\ flipped)
    /\ gev' = [gev EXCEPT !.pc = "g_read", !.q = "on"]
    /\ UNCHANGED <<ctxvars, refvars, ringvars, reqvars, callvars, histvars,
                   aio_nr, ring_id, sub, ki_freed, uaf, wtask, result, peak,
                   procvars, auxvars>>

(* ------------------------------- system ------------------------------- *)

Next ==
    \/ \E r \in Reqs : io_submit_lookup(r)
    \/ \E r \in Reqs : io_submit_one_invalid(r)
    \/ \E r \in Reqs, c \in CPUs : aio_get_req_first(r, c)
    \/ \E r \in Reqs, c \in CPUs : user_refill_reqs_available(r, c)
    \/ \E r \in Reqs, c \in CPUs : aio_get_req_second(r, c)
    \/ \E r \in Reqs, c \in CPUs : aio_get_req_nomem(r, c)
    \/ \E r \in Reqs, c \in CPUs, op \in OpOutcomes : io_submit_one_fn(r, c, op)
    \/ \E r \in Reqs : io_submit_return(r)
    \/ \E r \in Reqs, who \in {"s", "w"} : aio_complete_event(r, who)
    \/ \E r \in Reqs, who \in {"s", "w"}, c \in CPUs : aio_complete_tail(r, who, c)
    \/ \E r \in Reqs, who \in {"s", "w"} : aio_complete_free(r, who)
    \/ \E r \in Reqs : aio_thread_fn_start(r)
    \/ \E r \in Reqs, ret \in {16, -ERESTARTSYS} : aio_thread_fn_work(r, ret)
    \/ \E r \in Reqs, seen \in {"stored", "other"} : aio_thread_fn_cleanup(r, seen)
    \/ \E r \in Reqs : native_complete(r, 16)
    \/ \E p \in Cancellers, r \in Reqs, key \in Keys : io_cancel(p, r, key)
    \/ \E d \in {1} : io_destroy_lookup(d)
    \/ \E d \in {1} : kill_ioctx_xchg(d)
    \/ \E d \in {1} : kill_ioctx_rest(d)
    \/ \E d \in {1} : io_destroy_put(d)
    \/ \E d \in {1} : io_destroy_wait(d)
    \/ free_ioctx_users
    \/ free_ioctx_reqs
    \/ free_ioctx
    \/ \E nr \in 1 .. MaxReq : io_getevents(nr)

Spec == Init /\ [][Next]_vars

\* The whole system with two threads that call io_destroy on the context,
\* and without io_cancel and io_getevents.
NextTeardown ==
    \/ \E r \in Reqs : io_submit_lookup(r)
    \/ \E r \in Reqs : io_submit_one_invalid(r)
    \/ \E r \in Reqs, c \in CPUs : aio_get_req_first(r, c)
    \/ \E r \in Reqs, c \in CPUs : user_refill_reqs_available(r, c)
    \/ \E r \in Reqs, c \in CPUs : aio_get_req_second(r, c)
    \/ \E r \in Reqs, c \in CPUs : aio_get_req_nomem(r, c)
    \/ \E r \in Reqs, c \in CPUs, op \in OpOutcomes : io_submit_one_fn(r, c, op)
    \/ \E r \in Reqs : io_submit_return(r)
    \/ \E r \in Reqs, who \in {"s", "w"} : aio_complete_event(r, who)
    \/ \E r \in Reqs, who \in {"s", "w"}, c \in CPUs : aio_complete_tail(r, who, c)
    \/ \E r \in Reqs, who \in {"s", "w"} : aio_complete_free(r, who)
    \/ \E r \in Reqs : aio_thread_fn_start(r)
    \/ \E r \in Reqs, ret \in {16, -ERESTARTSYS} : aio_thread_fn_work(r, ret)
    \/ \E r \in Reqs, seen \in {"stored", "other"} : aio_thread_fn_cleanup(r, seen)
    \/ \E r \in Reqs : native_complete(r, 16)
    \/ \E d \in Destroyers : io_destroy_lookup(d)
    \/ \E d \in Destroyers : kill_ioctx_xchg(d)
    \/ \E d \in Destroyers : kill_ioctx_rest(d)
    \/ \E d \in Destroyers : io_destroy_put(d)
    \/ \E d \in Destroyers : io_destroy_wait(d)
    \/ free_ioctx_users
    \/ free_ioctx_reqs
    \/ free_ioctx

SpecTeardown == Init /\ [][NextTeardown]_vars

\* Submission, completion and reaping on the ring, with a user program that
\* also stores to ring->head.
NextHostile ==
    \/ \E r \in Reqs : io_submit_lookup(r)
    \/ \E r \in Reqs : io_submit_one_invalid(r)
    \/ \E r \in Reqs, c \in CPUs : aio_get_req_first(r, c)
    \/ \E r \in Reqs, c \in CPUs : user_refill_reqs_available(r, c)
    \/ \E r \in Reqs, c \in CPUs : aio_get_req_second(r, c)
    \/ \E r \in Reqs, c \in CPUs : aio_get_req_nomem(r, c)
    \/ \E r \in Reqs, c \in CPUs, op \in OpOutcomes : io_submit_one_fn(r, c, op)
    \/ \E r \in Reqs : io_submit_return(r)
    \/ \E r \in Reqs, who \in {"s", "w"} : aio_complete_event(r, who)
    \/ \E r \in Reqs, who \in {"s", "w"}, c \in CPUs : aio_complete_tail(r, who, c)
    \/ \E r \in Reqs, who \in {"s", "w"} : aio_complete_free(r, who)
    \/ \E r \in Reqs : aio_thread_fn_start(r)
    \/ \E r \in Reqs, ret \in {16, -ERESTARTSYS} : aio_thread_fn_work(r, ret)
    \/ \E r \in Reqs, seen \in {"stored", "other"} : aio_thread_fn_cleanup(r, seen)
    \/ \E r \in Reqs : native_complete(r, 16)
    \/ \E nr \in 1 .. MaxReq : io_getevents(nr)
    \/ \E v \in HostileHeads : user_write_head(v)

SpecHostile == Init /\ [][NextHostile]_vars

\* The system calls as they resolve the handle: submission of one iocb whose
\* operation completes natively or fails on the file descriptor and of one
\* that is malformed, io_cancel, the
\* io_getevents that can sleep, two threads that call io_destroy, and a
\* user program that stores to ring->id.  The one submission that takes a
\* slot finds it at its first get_reqs_available.
HandleOps == { op \in OpOutcomes : op.kind \in {"nofile", "native"} }

NextHandle ==
    \/ \E r \in Reqs : io_submit_lookup(r)
    \/ \E r \in {2} : io_submit_one_invalid(r)
    \/ \E r \in {1}, c \in {0} : aio_get_req_first(r, c)
    \/ \E r \in {1}, c \in {0}, op \in HandleOps : io_submit_one_fn(r, c, op)
    \/ \E r \in Reqs : io_submit_return(r)
    \/ \E r \in {1} : aio_complete_event(r, "w")
    \/ \E r \in {1}, c \in {0} : aio_complete_tail(r, "w", c)
    \/ \E r \in {1} : aio_complete_free(r, "w")
    \/ \E r \in {1} : native_complete(r, 16)
    \/ \E p \in Cancellers, r \in {1}, key \in Keys : io_cancel(p, r, key)
    \/ \E min_nr \in 0 .. 1, timeout \in {"null", "zero"} :
          io_getevents_call(min_nr, 1, timeout)
    \/ \E sig \in BOOLEAN : aio_read_events(FALSE, sig)
    \/ io_getevents_wake
    \/ io_getevents_signal
    \/ io_getevents_return
    \/ \E d \in Destroyers : io_destroy_lookup(d)
    \/ \E d \in Destroyers : kill_ioctx_xchg(d)
    \/ \E d \in Destroyers : kill_ioctx_rest(d)
    \/ \E d \in Destroyers : io_destroy_put(d)
    \/ \E d \in Destroyers : io_destroy_wait(d)
    \/ free_ioctx_users
    \/ free_ioctx_reqs
    \/ free_ioctx
    \/ \E v \in {CtxId, OtherId, table_nr} : user_write_id(v)

\* The handle claims do not depend on the ring's size or on the CPU.
InitHandle == Init /\ nr_events = 2

SpecHandle == InitHandle /\ [][NextHandle]_vars

\* One worker request (request 1), a descriptor that was never submitted
\* (request 2), io_cancel with a right or a wrong key, and io_getevents.
\* The worker thread and its aio_complete run to their end once started.
\* The one submission finds a free slot at its first get_reqs_available.
CancelOps == { op \in OpOutcomes : op.kind = "thread" }

NextCancel ==
    \/ \E r \in {1} : io_submit_lookup(r)
    \/ \E r \in {1}, c \in CPUs : aio_get_req_first(r, c)
    \/ \E r \in {1}, c \in CPUs, op \in CancelOps : io_submit_one_fn(r, c, op)
    \/ \E r \in {1} : io_submit_return(r)
    \/ \E r \in {1} : aio_thread_fn_start(r)
    \/ \E r \in {1}, ret \in {16, -ERESTARTSYS} : aio_thread_fn_work(r, ret)
    \/ \E r \in {1}, seen \in {"stored", "other"} : aio_thread_fn_cleanup(r, seen)
    \/ \E r \in {1} : aio_complete_event(r, "w")
    \/ \E r \in {1}, c \in CPUs : aio_complete_tail(r, "w", c)
    \/ \E r \in {1} : aio_complete_free(r, "w")
    \/ \E p \in Cancellers, r \in Reqs, key \in Keys : io_cancel(p, r, key)
    \/ \E nr \in 1 .. MaxReq : io_getevents(nr)

\* A step of the worker thread of request r or of its aio_complete.
OperationStep(r) ==
    \/ aio_thread_fn_start(r)
    \/ \E ret \in {16, -ERESTARTSYS} : aio_thread_fn_work(r, ret)
    \/ \E seen \in {"stored", "other"} : aio_thread_fn_cleanup(r, seen)
    \/ aio_complete_event(r, "w")
    \/ \E c \in CPUs : aio_complete_tail(r, "w", c)
    \/ aio_complete_free(r, "w")

SpecCancel ==
    Init /\ [][NextCancel]_vars /\ \A r \in {1} : WF_vars(OperationStep(r))


(* ------------------------------ batches ------------------------------- *)

\* The longest array of iocb pointers a call passes.
MaxBatch == 3

\* An entry of the array: a request's iocb, or 0 for a pointer that cannot
\* be read (__get_user or copy_from_user fails).
Entries == {0} \cup Reqs

\* The arrays: no iocb appears twice.
Batches ==
    { b \in UNION { [1 .. n -> Entries] : n \in 0 .. MaxBatch } :
        \A j, k \in DOMAIN b : j # k /\ b[j] # 0 => b[j] # b[k] }

do_io_submit_ret_mut(i, ret) == IF ret # 0 THEN ret ELSE i

\* return i ? i : ret
do_io_submit_ret(i, ret) == IF i # 0 THEN i ELSE ret

\* do_io_submit(ctx_id, nr, iocbpp) up to the loop: the check of nr and
\* lookup_ioctx.  The iocbs passed are not in use.
do_io_submit_call(iocbs, nr) ==
    /\ sub.pc \in {"idle", "b_ret", "b_fail"}
    /\ nr \in {-1, Len(iocbs)}
    /\ \A k \in DOMAIN iocbs :
          iocbs[k] # 0 => spc[iocbs[k]] = "idle" /\ wpc[iocbs[k]] = "none"
    /\ LET call == [pc |-> "b_loop", iocbs |-> iocbs, nr |-> nr, i |-> 0,
                    ret |-> 0, rv |-> 0]
       IN IF nr < 0 \/ ~lookup_ioctx
          THEN /\ sub' = [call EXCEPT !.pc = "b_fail", !.rv = -EINVAL]
               /\ UNCHANGED users
          ELSE /\ sub' = call
               /\ users' = users + 1
    /\ UNCHANGED <<ctxvars, users_dying, users_cb, reqs, reqs_dying, reqs_cb, rq_wait,
                   mapped, table, free_work, nfreed, ringvars, reqvars, callvars,
                   histvars, aio_nr, ring_id, gev, ki_freed, uaf, wtask, result, peak,
                   procvars, auxvars>>

\* do_io_submit: the loop reads entry i and calls io_submit_one on it, or
\* breaks with -EFAULT.
do_io_submit_next ==
    /\ sub.pc = "b_loop" /\ sub.i < sub.nr
    /\ LET e == sub.iocbs[sub.i + 1] IN
       IF e = 0
       THEN /\ sub' = [sub EXCEPT !.ret = -EFAULT, !.pc = "b_out"]
            /\ UNCHANGED <<spc, sret>>
       ELSE /\ sub' = [sub EXCEPT !.pc = "b_one"]
            /\ spc' = [spc EXCEPT ![e] = "s_one"]
            /\ sret' = [sret EXCEPT ![e] = 0]
    /\ UNCHANGED <<ctxvars, refvars, ringvars, wpc, kres, ki_cancel, ki_list, callvars,
                   histvars, aio_nr, ring_id, gev, ki_freed, uaf, wtask, result, peak,
                   procvars, auxvars>>

\* do_io_submit: io_submit_one returned; break when ret is not 0, else i++.
do_io_submit_one_ret ==
    /\ sub.pc = "b_one"
    /\ LET r == sub.iocbs[sub.i + 1] IN
       /\ spc[r] = "s_ret"
       /\ sub' = IF sret[r] # 0
                 THEN [sub EXCEPT !.ret = sret[r], !.pc = "b_out"]
                 ELSE [sub EXCEPT !.ret = 0, !.i = @ + 1, !.pc = "b_loop"]
       /\ spc' = [spc EXCEPT ![r] = IF sret[r] = 0 THEN "ret_ok" ELSE "idle"]
       /\ sret' = [sret EXCEPT ![r] = 0]
       /\ delta' = [delta EXCEPT ![r] = 0]
       /\ refilled' = [refilled EXCEPT ![r] = 0]
    /\ UNCHANGED <<ctxvars, refvars, ringvars, wpc, kres, ki_cancel, ki_list, callvars,
                   pubhist, unreaped, ncancel, reap_bad, ndrain,
                   aio_nr, ring_id, gev, ki_freed, uaf, wtask, result, peak,
                   procvars, auxvars>>

\* do_io_submit after the loop: percpu_ref_put(&ctx->users) and the return
\* value.
do_io_submit_out ==
    /\ sub.pc = "b_out" \/ (sub.pc = "b_loop" /\ sub.i >= sub.nr)
    /\ PutUsers
    /\ sub' = [sub EXCEPT !.pc = "b_ret", !.rv = do_io_submit_ret(sub.i, sub.ret)]
    /\ UNCHANGED <<ctxvars, reqs, reqs_dying, reqs_cb, rq_wait, mapped, table,
                   free_work, nfreed, ringvars, reqvars, callvars, histvars,
                   aio_nr, ring_id, gev, ki_freed, uaf, wtask, result, peak,
                   procvars, auxvars>>

\* One thread that calls io_submit with arrays of up to MaxBatch entries,
\* the operations of the requests it submits, io_getevents, and a user
\* program that stores to ring->id.
NextBatch ==
    \/ \E iocbs \in Batches, nr \in -1 .. MaxBatch : do_io_submit_call(iocbs, nr)
    \/ do_io_submit_next
    \/ do_io_submit_one_ret
    \/ do_io_submit_out
    \/ \E r \in Reqs : io_submit_one_invalid(r)
    \/ \E r \in Reqs, c \in CPUs : aio_get_req_first(r, c)
    \/ \E r \in Reqs, c \in CPUs : user_refill_reqs_available(r, c)
    \/ \E r \in Reqs, c \in CPUs : aio_get_req_second(r, c)
    \/ \E r \in Reqs, c \in CPUs : aio_get_req_nomem(r, c)
    \/ \E r \in Reqs, c \in CPUs, op \in OpOutcomes : io_submit_one_fn(r, c, op)
    \/ \E r \in Reqs, who \in {"s", "w"} : aio_complete_event(r, who)
    \/ \E r \in Reqs, who \in {"s", "w"}, c \in CPUs : aio_complete_tail(r, who, c)
    \/ \E r \in Reqs, who \in {"s", "w"} : aio_complete_free(r, who)
    \/ \E r \in Reqs : aio_thread_fn_start(r)
    \/ \E r \in Reqs, ret \in {16, -ERESTARTSYS} : aio_thread_fn_work(r, ret)
    \/ \E r \in Reqs, seen \in {"stored", "other"} : aio_thread_fn_cleanup(r, seen)
    \/ \E r \in Reqs : native_complete(r, 16)
    \/ \E nr \in 1 .. MaxReq : io_getevents(nr)
    \/ \E v \in {CtxId, OtherId} : user_write_id(v)

SpecBatch == Init /\ [][NextBatch]_vars


\* The io_getevents that can sleep, with every timeout, against requests
\* that complete natively, an io_destroy, signals, and an events buffer
\* that may not be writable.
ReapOps == { op \in OpOutcomes : op.kind = "native" }

NextReap ==
    \/ \E r \in Reqs : io_submit_lookup(r)
    \/ \E r \in Reqs, c \in {0} : aio_get_req_first(r, c)
    \/ \E r \in Reqs, c \in {0} : user_refill_reqs_available(r, c)
    \/ \E r \in Reqs, c \in {0} : aio_get_req_second(r, c)
    \/ \E r \in Reqs, c \in {0}, op \in ReapOps : io_submit_one_fn(r, c, op)
    \/ \E r \in Reqs : io_submit_return(r)
    \/ \E r \in Reqs : native_complete(r, 16)
    \/ \E r \in Reqs : aio_complete_event(r, "w")
    \/ \E r \in Reqs, c \in {0} : aio_complete_tail(r, "w", c)
    \/ \E r \in Reqs : aio_complete_free(r, "w")
    \/ \E min_nr \in -1 .. MaxReq, nr \in 0 .. MaxReq, timeout \in Timeouts :
          io_getevents_call(min_nr, nr, timeout)
    \/ \E fault \in BOOLEAN, sig \in BOOLEAN : aio_read_events(fault, sig)
    \/ io_getevents_wake
    \/ io_getevents_signal
    \/ io_getevents_timeout
    \/ io_getevents_return
    \/ \E d \in {1} : io_destroy_lookup(d)
    \/ \E d \in {1} : kill_ioctx_xchg(d)
    \/ \E d \in {1} : kill_ioctx_rest(d)
    \/ \E d \in {1} : io_destroy_put(d)
    \/ \E d \in {1} : io_destroy_wait(d)
    \/ free_ioctx_users
    \/ free_ioctx_reqs
    \/ free_ioctx

SpecReap == Init /\ [][NextReap]_vars


(* ----------------------------- admission ------------------------------ *)

\* The nr_events argument of io_setup in the admission runs: the largest
\* for which the ring is one page.
SetupNr == 62

\* Slots held by requests: in flight (each holds a reference on ctx->reqs),
\* being submitted with a slot already taken, or completed with the record
\* still in the ring.
Outstanding ==
    (reqs - 2) + Cardinality({ t \in Reqs : spc[t] = "s_fn" })
               + ((ring_tail + nr_events - ring_head) % nr_events)

\* The threads inside io_submit.
InCall(t) == spc[t] \notin {"idle", "ret_ok"}

\* Values a per-CPU counter is drawn from, numbers of req_batch in the
\* global counter, and numbers of slots of reaped records not yet credited
\* back, for the contexts the admission runs start from.
LocalDraws == {0, req_batch - 1, 2 * req_batch - 1}
GlobalDraws == {0, 1, 4}
CreditDraws == {0, 2 * req_batch, 4 * req_batch - 1}

\* A context set up by io_setup(SetupNr) after some use: the free slots are
\* spread over the global counter (which the code changes by req_batch at a
\* time), the per-CPU counters (each below 2 * req_batch) and
\* completed_events; q records are in the ring; all other slots are held
\* by requests in flight.
InitAdmit ==
    /\ nr_events = io_setup(SetupNr)
    /\ \E l0 \in LocalDraws, l1 \in LocalDraws, j \in GlobalDraws,
          e \in CreditDraws, q \in 0 .. 1 :
          LET g == ((nr_events - 1) % req_batch) + req_batch * j
              f == (nr_events - 1) - g - l0 - l1 - e - q
          IN /\ f >= 0
             /\ reqs_available = g
             /\ cpu = [c \in CPUs |-> IF c = 0 THEN l0 ELSE l1]
             /\ completed_events = q + e
             /\ reqs = 2 + f /\ reqs_dying = FALSE /\ reqs_cb = 0
             /\ tail = q /\ ring_tail = q /\ ring_head = 0
             /\ io_events = [i \in Slots |-> IF i < q THEN EventOf(1, 16) ELSE ZeroEvent]
             /\ shadow = [i \in Slots |-> IF i < q THEN EventOf(1, 16) ELSE ZeroEvent]
             /\ unreaped = 0 .. (q - 1)
    /\ InitRest
    /\ aio_nr = 2

\* The peak of every thread inside io_submit when one more slot is taken.
PeakUp(r) ==
    peak' = [t \in Reqs |-> IF InCall(t) \/ t = r
                            THEN Max(peak[t], Outstanding + 1) ELSE peak[t]]

\* do_io_submit: thread r enters with one iocb; lookup_ioctx.  A thread
\* makes no further call after one that failed.
admit_call(r) ==
    /\ spc[r] = "idle" /\ sret[r] = 0
    /\ lookup_ioctx
    /\ users' = users + 1
    /\ spc' = [spc EXCEPT ![r] = "s_one"]
    /\ peak' = [peak EXCEPT ![r] = Outstanding]
    /\ UNCHANGED <<ctxvars, users_dying, users_cb, reqs, reqs_dying, reqs_cb, rq_wait,
                   mapped, table, free_work, nfreed, ringvars, wpc, sret, refilled, kres, ki_cancel,
                   ki_list, callvars, delta, pubhist, unreaped, ncancel, reap_bad,
                   ndrain, aio_nr, ring_id, gev, sub, ki_freed, uaf, wtask, result,
                   procvars, auxvars>>

\* aio_get_req: get_reqs_available on CPU c, the first or the second; the
\* second one failing makes io_submit_one return -EAGAIN.
admit_get(r, c) ==
    /\ spc[r] \in {"s_one", "s_get2"}
    /\ LET g == get_reqs_available(reqs_available, cpu[c]) IN
       /\ SetCounters(c, g)
       /\ spc' = [spc EXCEPT ![r] = IF g.ok THEN "s_fn"
                                    ELSE IF @ = "s_one" THEN "s_refill" ELSE "s_ret"]
       /\ sret' = [sret EXCEPT ![r] = IF ~g.ok /\ spc[r] = "s_get2" THEN -EAGAIN ELSE @]
       /\ IF g.ok THEN PeakUp(r) ELSE UNCHANGED peak
    /\ UNCHANGED <<nr_events, tail, completed_events, completion_lock, active_reqs, dead,
                   refvars, ringvars, wpc, kres, ki_cancel, ki_list, callvars, histvars,
                   aio_nr, ring_id, gev, sub, ki_freed, uaf, wtask, result,
                   procvars, auxvars>>

\* aio_get_req: user_refill_reqs_available on CPU c.
admit_refill(r, c) ==
    /\ spc[r] = "s_refill"
    /\ completion_lock = <<>>
    /\ LET credit == IF completed_events > 0
                     THEN refill_credit(ring_head, tail, completed_events)
                     ELSE 0
           g == IF credit > 0
                THEN put_reqs_available(reqs_available, cpu[c], credit)
                ELSE [glob |-> reqs_available, loc |-> cpu[c]]
       IN /\ completed_events' = completed_events - credit
          /\ SetCounters(c, g)
          /\ refilled' = [refilled EXCEPT ![r] = @ + credit]
    /\ spc' = [spc EXCEPT ![r] = "s_get2"]
    /\ reaped' = (reaped /\ ~(completed_events > 0))
    /\ UNCHANGED <<nr_events, tail, completion_lock, active_reqs, dead, refvars, ringvars,
                   wpc, sret, kres, ki_cancel, ki_list, callvars, delta, pubhist,
                   unreaped, ncancel, reap_bad, ndrain, sysvars, procvars, stepvars, head_written>>

\* aio_get_req after the slot is taken: kmem_cache_alloc succeeds (ok) and
\* the request takes its reference on ctx->reqs and is queued, or fails and
\* the slot goes back on CPU c, io_submit_one returning -EAGAIN.
admit_alloc(r, c, ok) ==
    /\ spc[r] = "s_fn"
    /\ IF ok
       THEN /\ reqs' = reqs + 1
            /\ sret' = [sret EXCEPT ![r] = 0]
            /\ UNCHANGED <<reqs_available, cpu>>
       ELSE /\ SetCounters(c, put_reqs_available(reqs_available, cpu[c], 1))
            /\ sret' = [sret EXCEPT ![r] = -EAGAIN]
            /\ UNCHANGED reqs
    /\ spc' = [spc EXCEPT ![r] = "s_ret"]
    /\ UNCHANGED <<nr_events, tail, completed_events, completion_lock, active_reqs, dead,
                   users, users_dying, users_cb, reqs_dying, reqs_cb, rq_wait, mapped,
                   table, free_work, nfreed, ringvars, wpc, kres, ki_cancel, ki_list,
                   callvars, histvars, sysvars, procvars, auxvars>>

\* do_io_submit returns: the thread's iocb is accepted, or the call
\* failed.
admit_return(r) ==
    /\ spc[r] = "s_ret"
    /\ PutUsers
    /\ spc' = [spc EXCEPT ![r] = IF sret[r] = 0 THEN "ret_ok" ELSE "idle"]
    /\ UNCHANGED <<ctxvars, reqs, reqs_dying, reqs_cb, rq_wait, mapped, table,
                   free_work, nfreed, ringvars, wpc, sret, kres, ki_cancel, ki_list,
                   callvars, histvars, sysvars, procvars, auxvars>>

\* The ring indices up to which the admission runs let the tail advance.
MaxTail == 1

\* aio_complete of one of the requests in flight, on CPU c: the event and
\* tail stores, completed_events and the refill under completion_lock, and
\* the put of the reference on ctx->reqs.
admit_complete(c) ==
    /\ reqs > 2 /\ tail < MaxTail
    /\ completion_lock = <<>>
    /\ io_events' = [io_events EXCEPT ![EventPos(tail)] = EventOf(1, 16)]
    /\ shadow' = [shadow EXCEPT ![tail] = EventOf(1, 16)]
    /\ overwrote' = (overwrote \/ EventPos(tail) \in unreaped)
    /\ last_store' = EventPos(tail)
    /\ unreaped' = unreaped \cup {tail}
    /\ tail' = NextTail(tail)
    /\ ring_tail' = NextTail(tail)
    /\ LET completed == completed_events + 1
           credit == IF completed > 1
                     THEN refill_credit(ring_head, NextTail(tail), completed)
                     ELSE 0
           g == IF credit > 0
                THEN put_reqs_available(reqs_available, cpu[c], credit)
                ELSE [glob |-> reqs_available, loc |-> cpu[c]]
       IN /\ completed_events' = completed - credit
          /\ SetCounters(c, g)
    /\ PutReqs
    /\ reaped' = (reaped /\ ~(completed_events + 1 > 1))
    /\ UNCHANGED <<nr_events, completion_lock, active_reqs, dead, users, users_dying,
                   users_cb, rq_wait, mapped, table, free_work, nfreed, ring_head,
                   reqvars, callvars, subhist, npub, pubrec, ncancel, reap_bad, ndrain,
                   sysvars, procvars, stepvars, head_written>>

\* Two threads that each submit an iocb on a used context, on whichever CPU
\* each step runs, while requests in flight complete and io_getevents
\* reaps.
NextAdmit ==
    \/ \E r \in Reqs : admit_call(r)
    \/ \E r \in Reqs, c \in CPUs : admit_get(r, c)
    \/ \E r \in Reqs, c \in CPUs : admit_refill(r, c)
    \/ \E r \in Reqs, c \in CPUs, ok \in BOOLEAN : admit_alloc(r, c, ok)
    \/ \E r \in Reqs : admit_return(r)
    \/ \E c \in CPUs : admit_complete(c)
    \/ \E nr \in 1 .. MaxReq : io_getevents(nr)

SpecAdmit == InitAdmit /\ [][NextAdmit]_vars


(* ----------------------------- scenarios ------------------------------ *)

\* Two reads submitted on a context set up by io_setup(1), each run by a
\* worker thread; nothing is reaped.
InitSetup1 == InitRing(io_setup(1))

NextSetup1 ==
    \/ \E r \in Reqs : io_submit_lookup(r)
    \/ \E r \in Reqs, c \in CPUs : aio_get_req_first(r, c)
    \/ \E r \in Reqs, c \in CPUs : aio_get_req_nomem(r, c)
    \/ \E r \in Reqs, c \in CPUs, op \in CancelOps : io_submit_one_fn(r, c, op)
    \/ \E r \in Reqs : io_submit_return(r)
    \/ \E r \in Reqs : aio_thread_fn_start(r)
    \/ \E r \in Reqs, ret \in {16} : aio_thread_fn_work(r, ret)
    \/ \E r \in Reqs, seen \in {"stored", "other"} : aio_thread_fn_cleanup(r, seen)
    \/ \E r \in Reqs : aio_complete_event(r, "w")
    \/ \E r \in Reqs, c \in CPUs : aio_complete_tail(r, "w", c)
    \/ \E r \in Reqs : aio_complete_free(r, "w")

SpecSetup1 == InitSetup1 /\ [][NextSetup1]_vars


\* 0xFFFFFFFF modulo n, computed from its 16-bit halves.
UintMaxMod(n) == ((65535 % n) * (65536 % n) + (65535 % n)) % n

\* The head 0xFFFFFFFF as user space stores it.  The code compares an
\* unsigned head with the tail and otherwise uses it modulo nr_events; the
\* largest integer the checker holds that is congruent to 0xFFFFFFFF
\* modulo nr_events stands for it.
HeadAllOnes == 2147483647 - ((2147483647 - UintMaxMod(nr_events)) % nr_events)

\* A context set up by io_setup(4): requests that complete natively, a user
\* program that stores 0xFFFFFFFF to ring->head, and io_getevents with a
\* zero timeout; all on one CPU.
InitSetup4 == InitRing(io_setup(4))

NextSetup4 ==
    \/ \E r \in Reqs : io_submit_lookup(r)
    \/ \E r \in Reqs, c \in {0} : aio_get_req_first(r, c)
    \/ \E r \in Reqs, c \in {0}, op \in ReapOps : io_submit_one_fn(r, c, op)
    \/ \E r \in Reqs : io_submit_return(r)
    \/ \E r \in Reqs : native_complete(r, 16)
    \/ \E r \in Reqs : aio_complete_event(r, "w")
    \/ \E r \in Reqs, c \in {0} : aio_complete_tail(r, "w", c)
    \/ \E r \in Reqs : aio_complete_free(r, "w")
    \/ user_write_head(HeadAllOnes)
    \/ \E nr \in 1 .. MaxReq : io_getevents_call(0, nr, "zero")
    \/ aio_read_events(FALSE, FALSE)
    \/ io_getevents_return

SpecSetup4 == InitSetup4 /\ [][NextSetup4]_vars


\* Requests of the worker fallback, their worker threads, and an io_cancel
\* whose kiocb_cancel is followed read by read, so that its cmpxchg races
\* with the one in aio_thread_fn.  Each submission finds a free slot at its
\* first get_reqs_available.
NextRace ==
    \/ \E r \in Reqs : io_submit_lookup(r)
    \/ \E r \in Reqs, c \in {0} : aio_get_req_first(r, c)
    \/ \E r \in Reqs, c \in {0}, op \in CancelOps : io_submit_one_fn(r, c, op)
    \/ \E r \in Reqs : io_submit_return(r)
    \/ \E r \in Reqs : aio_thread_fn_start(r)
    \/ \E r \in Reqs, ret \in {16, -ERESTARTSYS} : aio_thread_fn_work(r, ret)
    \/ \E r \in Reqs : aio_complete_event(r, "w")
    \/ \E r \in Reqs, c \in {0} : aio_complete_tail(r, "w", c)
    \/ \E r \in Reqs : aio_complete_free(r, "w")
    \/ \E r \in Reqs, seen \in {"stored", "other"} : aio_thread_fn_cleanup(r, seen)
    \/ \E p \in Cancellers, r \in Reqs, key \in Keys : io_cancel_lock(p, r, key)
    \/ kiocb_cancel_cmpxchg
    \/ kiocb_cancel_call
    \/ \E p \in Cancellers : io_cancel_unlock(p)

\* A ring with room for both requests.
InitRace == Init /\ nr_events = 3

SpecRace == InitRace /\ [][NextRace]_vars

\* What reaches aio_complete as res through ki_complete, from a natively
\* asynchronous operation or from an opcode function that completes the
\* iocb itself (aio_openat): a result, or an error the operation got,
\* restart codes among them.
CompleteRets == {16, -ERESTARTSYS}

\* Submissions of every kind, io_cancel, and the three ways a result
\* reaches aio_complete: from aio_thread_fn, from io_submit_one, and
\* through ki_complete.
NextResults ==
    \/ \E r \in Reqs : io_submit_lookup(r)
    \/ \E r \in Reqs, c \in {0} : aio_get_req_first(r, c)
    \/ \E r \in Reqs, c \in {0}, op \in OpOutcomes : io_submit_one_fn(r, c, op)
    \/ \E r \in Reqs : io_submit_return(r)
    \/ \E r \in Reqs : aio_thread_fn_start(r)
    \/ \E r \in Reqs, ret \in {16, -ERESTARTSYS} : aio_thread_fn_work(r, ret)
    \/ \E r \in Reqs, ret \in CompleteRets : native_complete(r, ret)
    \/ \E r \in Reqs, who \in {"s", "w"} : aio_complete_event(r, who)
    \/ \E r \in Reqs, who \in {"s", "w"}, c \in {0} : aio_complete_tail(r, who, c)
    \/ \E r \in Reqs, who \in {"s", "w"} : aio_complete_free(r, who)
    \/ \E r \in Reqs, seen \in {"stored", "other"} : aio_thread_fn_cleanup(r, seen)
    \/ \E p \in Cancellers, r \in Reqs : io_cancel(p, r, KIOCB_KEY)

SpecResults == InitRace /\ [][NextResults]_vars

\* Natively asynchronous requests and one io_getevents that waits on
\* ctx->wait for min_nr of them, with no timeout or a timeout that has not
\* run out when the call starts.  Nothing else takes records from the ring.
NextWait ==
    \/ \E r \in Reqs : io_submit_lookup(r)
    \/ \E r \in Reqs, c \in {0} : aio_get_req_first(r, c)
    \/ \E r \in Reqs, c \in {0}, op \in ReapOps : io_submit_one_fn(r, c, op)
    \/ \E r \in Reqs : io_submit_return(r)
    \/ \E r \in Reqs : native_complete(r, 16)
    \/ \E r \in Reqs : aio_complete_event(r, "w")
    \/ \E r \in Reqs, c \in {0} : aio_complete_tail(r, "w", c)
    \/ \E r \in Reqs : aio_complete_free(r, "w")
    \/ \E min_nr \in 1 .. MaxReq, timeout \in {"null", "finite"} :
          io_getevents_call(min_nr, MaxReq, timeout)
    \/ aio_read_events(FALSE, FALSE)
    \/ read_events_prepare
    \/ \E flipped \in BOOLEAN : read_events_schedule(flipped)
    \/ io_getevents_timeout
    \/ io_getevents_return

\* The caller of io_getevents runs when it can, and an aio_complete that
\* has begun runs to its end.
SpecWait ==
    /\ InitRace /\ [][NextWait]_vars
    /\ WF_vars(aio_read_events(FALSE, FALSE))
    /\ WF_vars(read_events_prepare)
    /\ WF_vars(read_events_schedule(FALSE))
    /\ \A r \in Reqs : WF_vars(aio_complete_free(r, "w"))

\* One io_getevents that waits on ctx->wait without a timeout, a natively
\* asynchronous request (the iocb ParkReqs), and an io_destroy of the
\* context with the release callbacks of users and reqs.
ParkReqs == {1}
NextPark ==
    \/ \E r \in ParkReqs : io_submit_lookup(r)
    \/ \E r \in ParkReqs, c \in {0} : aio_get_req_first(r, c)
    \/ \E r \in ParkReqs, c \in {0}, op \in ReapOps : io_submit_one_fn(r, c, op)
    \/ \E r \in ParkReqs : io_submit_return(r)
    \/ \E r \in ParkReqs : native_complete(r, 16)
    \/ \E r \in ParkReqs : aio_complete_event(r, "w")
    \/ \E r \in ParkReqs, c \in {0} : aio_complete_tail(r, "w", c)
    \/ \E r \in ParkReqs : aio_complete_free(r, "w")
    \/ \E min_nr \in 1 .. MaxReq : io_getevents_call(min_nr, MaxReq, "null")
    \/ aio_read_events(FALSE, FALSE)
    \/ read_events_prepare
    \/ \E flipped \in BOOLEAN : read_events_schedule(flipped)
    \/ io_getevents_return
    \/ io_destroy_lookup(1)
    \/ kill_ioctx_xchg(1)
    \/ kill_ioctx_rest(1)
    \/ io_destroy_put(1)
    \/ io_destroy_wait(1)
    \/ free_ioctx_users
    \/ free_ioctx_reqs
    \/ free_ioctx

\* Every system call in progress runs on, every request in flight
\* completes, and the release callbacks run.
SpecPark ==
    /\ InitRace /\ [][NextPark]_vars
    /\ WF_vars(aio_read_events(FALSE, FALSE))
    /\ WF_vars(read_events_prepare)
    /\ WF_vars(read_events_schedule(FALSE))
    /\ WF_vars(io_getevents_return)
    /\ \A r \in ParkReqs :
          /\ WF_vars(aio_get_req_first(r, 0))
          /\ WF_vars(\E op \in ReapOps : io_submit_one_fn(r, 0, op))
          /\ WF_vars(io_submit_return(r))
          /\ WF_vars(native_complete(r, 16))
          /\ WF_vars(aio_complete_event(r, "w"))
          /\ WF_vars(aio_complete_tail(r, "w", 0))
          /\ WF_vars(aio_complete_free(r, "w"))
    /\ WF_vars(kill_ioctx_xchg(1))
    /\ WF_vars(kill_ioctx_rest(1))
    /\ WF_vars(io_destroy_put(1))
    /\ WF_vars(io_destroy_wait(1))
    /\ WF_vars(free_ioctx_users)
    /\ WF_vars(free_ioctx_reqs)

(* --------------- admission counter, one access at a time --------------- *)

\* get_reqs_available and put_reqs_available run with interrupts off, so
\* one of them at a time on each CPU; kcpu->reqs_available is private to
\* the CPU and ctx->reqs_available is reached by atomic_read,
\* atomic_cmpxchg and atomic_add only.  A step below is one access to
\* ctx->reqs_available with the CPU-local work that follows it.
\* percpu.held counts the slots that callers hold.

PutSizes == {1, 3}

Returned(c, fn, ret) ==
    [percpu.at EXCEPT ![c] = [pc |-> "idle", fn |-> fn, avail |-> 0, ret |-> ret]]

ReserveUnchanged ==
    UNCHANGED <<nr_events, tail, completed_events, completion_lock, active_reqs, dead,
                refvars, ringvars, reqvars, callvars, histvars, sysvars, procvars, reap, tab, mig, oa, ghostvars>>

\* get_reqs_available on CPU c up to its atomic_read: the slot comes from
\* kcpu->reqs_available when that is not 0.
get_reqs_available_read(c) ==
    /\ percpu.at[c].pc = "idle"
    /\ IF cpu[c] # 0
       THEN /\ cpu' = [cpu EXCEPT ![c] = @ - 1]
            /\ percpu' = [at |-> Returned(c, "get", TRUE), held |-> percpu.held + 1]
       ELSE /\ cpu' = cpu
            /\ percpu' = [percpu EXCEPT !.at =
                   IF reqs_available < req_batch
                   THEN Returned(c, "get", FALSE)
                   ELSE [@ EXCEPT ![c] = [pc |-> "cmpxchg", fn |-> "get",
                                          avail |-> reqs_available, ret |-> FALSE]]]
    /\ UNCHANGED reqs_available
    /\ ReserveUnchanged

atomic_cmpxchg_mut(v, old, new) == [val |-> new, ret |-> old]

\* atomic_cmpxchg(v, old, new): the value stored and the value returned.
atomic_cmpxchg(v, old, new) == [val |-> IF v = old THEN new ELSE v, ret |-> v]

\* One turn of the do-while loop: the atomic_cmpxchg and the test of the
\* value it returned.
get_reqs_available_cmpxchg(c) ==
    /\ percpu.at[c].pc = "cmpxchg"
    /\ LET old == percpu.at[c].avail
           x == atomic_cmpxchg(reqs_available, old, old - req_batch)
       IN /\ reqs_available' = x.val
          /\ percpu' = [percpu EXCEPT !.at =
                 IF x.ret = old
                 THEN [@ EXCEPT ![c].pc = "take"]
                 ELSE IF x.ret < req_batch
                      THEN Returned(c, "get", FALSE)
                      ELSE [@ EXCEPT ![c].avail = x.ret]]
    /\ UNCHANGED cpu
    /\ ReserveUnchanged

\* kcpu->reqs_available += ctx->req_batch; ret = true; kcpu->reqs_available--.
get_reqs_available_take(c) ==
    /\ percpu.at[c].pc = "take"
    /\ cpu' = [cpu EXCEPT ![c] = @ + req_batch - 1]
    /\ percpu' = [at |-> Returned(c, "get", TRUE), held |-> percpu.held + 1]
    /\ UNCHANGED reqs_available
    /\ ReserveUnchanged

\* put_reqs_available(ctx, nr) on CPU c: kcpu->reqs_available += nr.
put_reqs_available_add(c, nr) ==
    /\ percpu.at[c].pc = "idle"
    /\ percpu.held >= nr
    /\ cpu' = [cpu EXCEPT ![c] = @ + nr]
    /\ percpu' = [at |-> [percpu.at EXCEPT ![c] = [pc |-> "flush", fn |-> "put",
                                                  avail |-> 0, ret |-> FALSE]],
                  held |-> percpu.held - nr]
    /\ UNCHANGED reqs_available
    /\ ReserveUnchanged

\* One test of the while loop of put_reqs_available, and its body.
put_reqs_available_flush(c) ==
    /\ percpu.at[c].pc = "flush"
    /\ IF cpu[c] >= req_batch * 2
       THEN /\ cpu' = [cpu EXCEPT ![c] = @ - req_batch]
            /\ reqs_available' = reqs_available + req_batch
            /\ UNCHANGED percpu
       ELSE /\ percpu' = [percpu EXCEPT !.at = Returned(c, "put", FALSE)]
            /\ UNCHANGED <<cpu, reqs_available>>
    /\ ReserveUnchanged

\* Reservations and returns of slots from both CPUs of a context set up by
\* io_setup(1).
InitReserve == InitRing(io_setup(1))

NextReserve ==
    \/ \E c \in CPUs : get_reqs_available_read(c)
    \/ \E c \in CPUs : get_reqs_available_cmpxchg(c)
    \/ \E c \in CPUs : get_reqs_available_take(c)
    \/ \E c \in CPUs, nr \in PutSizes : put_reqs_available_add(c, nr)
    \/ \E c \in CPUs : put_reqs_available_flush(c)

SpecReserve == InitReserve /\ [][NextReserve]_vars

(* --------------- aio_read_events_ring, one copy at a time --------------- *)

Readers == {1, 2}
\* Requests in flight at the start, and the most events a call asks for.
MaxPub == 2
MaxNr == 2

RingUnchanged ==
    UNCHANGED <<ctxvars, refvars, ring_tail, io_events, reqvars, callvars, subhist, pubhist,
                ncancel, reap_bad, ndrain, sysvars, procvars, percpu, tab, mig, oa, head_written>>

\* mutex_lock(&ctx->ring_lock), the read of ring->head and ring->tail, the
\* test for an empty ring and the two reductions modulo nr_events.
aio_read_events_ring_lock(t, nr, bad) ==
    /\ reap.th[t].pc = "idle"
    /\ reap.ring_lock = 0
    /\ reap' = [reap EXCEPT !.ring_lock = t,
                        !.th[t] = [pc |-> IF ring_head = ring_tail THEN "out" ELSE "loop",
                                   head |-> IF ring_head = ring_tail THEN ring_head
                                            ELSE ring_head % nr_events,
                                   tl |-> IF ring_head = ring_tail THEN ring_tail
                                          ELSE ring_tail % nr_events,
                                   ret |-> 0, nr |-> nr, ncopy |-> 0, bad |-> bad,
                                   buf |-> <<>>, head0 |-> ring_head]]
    /\ UNCHANGED <<ring_head, unreaped, reaped>>
    /\ RingUnchanged

\* The events of n slots from slot h on.
EventsFrom(h, n) == [k \in 1 .. n |-> io_events[EventPos(h + k - 1)]]

copy_chunk_mut(head, tl, room) == Min(nr_events - head, room)

\* The number of events one copy_to_user of the loop takes: up to the tail
\* or the end of the ring, the room left in the buffer, the end of the page.
copy_chunk(head, tl, room) ==
    Min(Min((IF head <= tl THEN tl ELSE nr_events) - head, room),
        AIO_EVENTS_PER_PAGE - ((head + AIO_EVENTS_OFFSET) % AIO_EVENTS_PER_PAGE))

copy_failed_mut == "store"

\* if (unlikely(copy_ret)) { ret = -EFAULT; goto out; }
copy_failed == "out"

\* One turn of the while loop: the test, and the copy_to_user with what
\* follows it.
aio_read_events_ring_copy(t) ==
    /\ reap.th[t].pc = "loop"
    /\ LET s == reap.th[t]
           avail == copy_chunk(s.head, s.tl, s.nr - s.ret)
       IN reap' = [reap EXCEPT !.th[t] =
             IF ~(s.ret < s.nr) \/ s.head = s.tl
             THEN [s EXCEPT !.pc = "store"]
             ELSE IF s.ncopy + 1 = s.bad
             THEN [s EXCEPT !.pc = copy_failed, !.ret = -EFAULT, !.ncopy = @ + 1]
             ELSE [s EXCEPT !.ret = @ + avail, !.head = (@ + avail) % nr_events,
                            !.ncopy = @ + 1, !.buf = @ \o EventsFrom(s.head, avail)]]
    /\ UNCHANGED <<ring_head, unreaped, reaped>>
    /\ RingUnchanged

\* ring->head = head.
aio_read_events_ring_store(t) ==
    /\ reap.th[t].pc = "store"
    /\ ring_head' = reap.th[t].head
    /\ unreaped' = unreaped \ SlotsRead(reap.th[t].head0 % nr_events, reap.th[t].ret)
    /\ reaped' = (reaped \/ reap.th[t].ret > 0)
    /\ reap' = [reap EXCEPT !.th[t].pc = "out"]
    /\ RingUnchanged

\* out: mutex_unlock(&ctx->ring_lock); return ret.
aio_read_events_ring_unlock(t) ==
    /\ reap.th[t].pc = "out"
    /\ reap' = [reap EXCEPT !.ring_lock = 0,
                        !.th[t].pc = "idle",
                        !.returned = IF reap.th[t].ret > 0 THEN @ \o reap.th[t].buf ELSE @]
    /\ UNCHANGED <<ring_head, unreaped, reaped>>
    /\ RingUnchanged

\* aio_complete of a request in flight (it holds a reference on reqs), on
\* CPU 0: the event, the tail, completed_events and the refill.  The
\* request's result is its number in the order of completion.
aio_complete_inflight ==
    /\ reqs > 2
    /\ completion_lock = <<>>
    /\ LET res == MaxPub - (reqs - 2) + 1 IN
       /\ io_events' = [io_events EXCEPT ![EventPos(tail)] = EventOf(1, res)]
       /\ shadow' = [shadow EXCEPT ![tail] = EventOf(1, res)]
    /\ overwrote' = (overwrote \/ EventPos(tail) \in unreaped)
    /\ last_store' = EventPos(tail)
    /\ unreaped' = unreaped \cup {tail}
    /\ tail' = NextTail(tail)
    /\ ring_tail' = NextTail(tail)
    /\ LET completed == completed_events + 1
           credit == IF completed > 1
                     THEN refill_credit(ring_head, NextTail(tail), completed)
                     ELSE 0
           g == IF credit > 0
                THEN put_reqs_available(reqs_available, cpu[0], credit)
                ELSE [glob |-> reqs_available, loc |-> cpu[0]]
       IN /\ completed_events' = completed - credit
          /\ SetCounters(0, g)
    /\ reaped' = (reaped /\ ~(completed_events + 1 > 1))
    /\ PutReqs
    /\ UNCHANGED <<nr_events, completion_lock, active_reqs, dead, users, users_dying,
                   users_cb, rq_wait, mapped, table, free_work, nfreed, ring_head,
                   reqvars, callvars, subhist, npub, pubrec, ncancel, reap_bad, ndrain,
                   sysvars, procvars, stepvars, head_written>>

\* Rings of one and of two pages whose head and tail have reached h, the
\* last slot of the first page, with MaxPub requests in flight: the next
\* record wraps the ring of one page and starts the second page of the
\* other.
RingStarts == { <<127, 126>>, <<255, 126>> }

InitRingAt(nr, h) ==
    /\ nr_events = nr
    /\ reqs_available = nr_events - 1 - MaxPub
    /\ cpu = [c \in CPUs |-> 0]
    /\ tail = h
    /\ completed_events = 0
    /\ reqs = 2 + MaxPub /\ reqs_dying = FALSE /\ reqs_cb = 0
    /\ ring_head = h /\ ring_tail = h
    /\ io_events = [i \in Slots |-> ZeroEvent]
    /\ shadow = [i \in Slots |-> ZeroEvent]
    /\ unreaped = {}
    /\ InitRest
    /\ aio_nr = 2

InitRead == \E s \in RingStarts : InitRingAt(s[1], s[2])

NextRead ==
    \/ \E t \in Readers, nr \in 1 .. MaxNr, bad \in 0 .. 2 : aio_read_events_ring_lock(t, nr, bad)
    \/ \E t \in Readers : aio_read_events_ring_copy(t)
    \/ \E t \in Readers : aio_read_events_ring_store(t)
    \/ \E t \in Readers : aio_read_events_ring_unlock(t)
    \/ aio_complete_inflight

SpecRead == InitRead /\ [][NextRead]_vars

(* ------------------- ioctx_add_table, step by step -------------------- *)

TabUnchanged ==
    UNCHANGED <<ctxvars, refvars, ringvars, reqvars, callvars, histvars, sysvars, procvars,
                percpu, reap, mig, oa, ghostvars>>

\* The index of the first NULL slot of a table, from 0; -1 with none.
first_free_mut(tbl) == IF tbl = <<>> THEN -1 ELSE 0

first_free(tbl) ==
    IF \E k \in 1 .. Len(tbl) : tbl[k] = NoCtx
    THEN (CHOOSE k \in 1 .. Len(tbl) : tbl[k] = NoCtx /\ \A j \in 1 .. (k - 1) : tbl[j] # NoCtx) - 1
    ELSE -1

\* The for loop of ioctx_add_table on table tbl for the context of task t,
\* under mm->ioctx_lock: ctx->id = i and table->table[i] = ctx for the first
\* free slot i, or new_nr = (table ? table->nr : 1) * 4 and the unlock.
add_table_loop(t, c, tbl) ==
    LET i == first_free(tbl) IN
    IF i >= 0
    THEN [tab EXCEPT !.table = [tbl EXCEPT ![i + 1] = c],
                     !.id = [k \in 1 .. MaxIns |-> IF k = c THEN i ELSE tab.id[k]],
                     !.th[t] = [pc |-> "ring_id", ctx |-> c, new_nr |-> 0, ret |-> 0]]
    ELSE [tab EXCEPT !.table = tbl,
                     !.th[t] = [pc |-> "kzalloc", ctx |-> c, ret |-> 0,
                                new_nr |-> (IF tbl = <<>> THEN 1 ELSE Len(tbl)) * 4]]

\* ioctx_add_table for a context just allocated: spin_lock and the first
\* turn of the loop.
add_table_search(t) ==
    /\ tab.th[t].pc = "idle"
    /\ tab.made < MaxIns
    /\ tab' = [add_table_loop(t, tab.made + 1, tab.table) EXCEPT !.made = tab.made + 1]
    /\ TabUnchanged

\* kzalloc of the new table outside the lock; -ENOMEM when it fails.
add_table_kzalloc(t, ok) ==
    /\ tab.th[t].pc = "kzalloc"
    /\ tab' = [tab EXCEPT !.th[t] = IF ok THEN [@ EXCEPT !.pc = "install"]
                                         ELSE [pc |-> "idle", ctx |-> 0, new_nr |-> 0,
                                               ret |-> -ENOMEM]]
    /\ TabUnchanged

\* The table that is mm->ioctx_table after the second critical section
\* saw old and holds a zeroed table of n slots.
install_table(old, n) ==
    IF old = <<>> THEN [k \in 1 .. n |-> NoCtx]
    ELSE IF n > Len(old) THEN [k \in 1 .. n |-> IF k <= Len(old) THEN old[k] ELSE NoCtx]
    ELSE old

\* spin_lock again, the new table installed unless the current one is as
\* large, and the next turn of the loop on the current table.
add_table_install(t) ==
    /\ tab.th[t].pc = "install"
    /\ tab' = add_table_loop(t, tab.th[t].ctx, install_table(tab.table, tab.th[t].new_nr))
    /\ TabUnchanged

\* ring->id = ctx->id, after the unlock; ioctx_add_table returns 0.
add_table_ring_id(t) ==
    /\ tab.th[t].pc = "ring_id"
    /\ tab' = [tab EXCEPT !.ring_id = [k \in 1 .. MaxIns |->
                                          IF k = tab.th[t].ctx THEN tab.id[k] ELSE tab.ring_id[k]],
                          !.ready = @ \cup {tab.th[t].ctx},
                          !.th[t] = [pc |-> "idle", ctx |-> 0, new_nr |-> 0, ret |-> 0]]
    /\ TabUnchanged

\* kill_ioctx of a context that was set up, under mm->ioctx_lock:
\* atomic_xchg(&ctx->dead, 1) and table->table[ctx->id] = NULL.
kill_ioctx_table(c) ==
    /\ c \in tab.ready \ tab.dead
    /\ tab' = [tab EXCEPT !.dead = @ \cup {c},
                          !.table[tab.id[c] + 1] = NoCtx]
    /\ TabUnchanged

\* lookup_ioctx with the id in the ring header of context c: the context
\* in that slot of the table, NoCtx with none.
lookup_table(c) ==
    LET id == tab.ring_id[c] IN
    IF tab.table = <<>> \/ id >= Len(tab.table) THEN NoCtx ELSE tab.table[id + 1]

InitTable == InitRing(3)

NextTable ==
    \/ \E t \in Tasks : add_table_search(t)
    \/ \E t \in Tasks, ok \in BOOLEAN : add_table_kzalloc(t, ok)
    \/ \E t \in Tasks : add_table_install(t)
    \/ \E t \in Tasks : add_table_ring_id(t)
    \/ \E c \in 1 .. MaxIns : kill_ioctx_table(c)

SpecTable == InitTable /\ [][NextTable]_vars

(* --------------------------- aio_migratepage --------------------------- *)

\* stray records an access to the context or to one of its pages that the
\* code must not make: aio_migratepage using a context whose ring file is
\* disconnected, or a store or load on a page the context has put.
\* replaced lists the substitutions made: the locks held, the page found in
\* the slot and the page expected.

MIGRATEPAGE_SUCCESS == 0
MaxEvents == 2

MigUnchanged ==
    UNCHANGED <<ctxvars, refvars, ringvars, reqvars, callvars, histvars, sysvars, procvars,
                percpu, reap, tab, oa, ghostvars>>

\* aio_migratepage(mapping, new, old, mode) up to the test of
\* mapping->private_data under mapping->private_lock.
aio_migratepage_enter(old, new, idx) ==
    /\ mig.m.pc = "idle"
    /\ mig.private_lock = "free"
    /\ new \notin ({old} \cup { mig.ring_pages[k] : k \in 1 .. Len(mig.ring_pages) } \cup mig.put)
    /\ mig' = [mig EXCEPT !.private_lock = "migrate",
                          !.m = [pc |-> IF mig.private_data THEN "trylock" ELSE "out",
                                 old |-> old, new |-> new, idx |-> idx,
                                 rc |-> IF mig.private_data THEN 0 ELSE -EINVAL,
                                 order |-> <<"private_lock">>]]
    /\ MigUnchanged

\* mutex_trylock(&ctx->ring_lock); -EAGAIN when another task holds it.
aio_migratepage_trylock ==
    /\ mig.m.pc = "trylock"
    /\ mig' = [mig EXCEPT !.stray = @ \/ ~mig.private_data,
                          !.ring_lock = IF @ = "free" THEN "migrate" ELSE @,
                          !.m = IF mig.ring_lock = "free"
                                THEN [@ EXCEPT !.pc = "check", !.order = Append(@, "ring_lock")]
                                ELSE [@ EXCEPT !.pc = "out", !.rc = -EAGAIN]]
    /\ MigUnchanged

page_expected_mut(pages, idx, old) == IF idx < Len(pages) THEN 0 ELSE -EINVAL

\* rc after the test of idx and of ctx->ring_pages[idx] against old.
page_expected(pages, idx, old) ==
    IF idx < Len(pages)
    THEN IF pages[idx + 1] # old THEN -EAGAIN ELSE 0
    ELSE -EINVAL

\* idx = old->index and the two tests; migrate_page_move_mapping, which
\* returns rc; goto out_unlock unless both went through.
aio_migratepage_check(rc) ==
    /\ mig.m.pc = "check"
    /\ LET rc0 == page_expected(mig.ring_pages, mig.m.idx, mig.m.old) IN
       mig' = [mig EXCEPT !.stray = @ \/ ~mig.private_data,
                          !.m.rc = IF rc0 # 0 THEN rc0 ELSE rc,
                          !.m.pc = IF rc0 # 0 \/ rc # MIGRATEPAGE_SUCCESS
                                   THEN "out_unlock" ELSE "lock"]
    /\ MigUnchanged

\* spin_lock_irqsave(&ctx->completion_lock, flags)
aio_migratepage_lock ==
    /\ mig.m.pc = "lock"
    /\ mig.completion_lock = "free"
    /\ mig' = [mig EXCEPT !.completion_lock = "migrate",
                          !.m.pc = "copy", !.m.order = Append(@, "completion_lock")]
    /\ MigUnchanged

\* migrate_page_copy(new, old)
aio_migratepage_copy ==
    /\ mig.m.pc = "copy"
    /\ mig' = [mig EXCEPT !.content[mig.m.new] = mig.content[mig.m.old],
                          !.stray = @ \/ ~mig.private_data \/ mig.m.old \in mig.put,
                          !.m.pc = "assign"]
    /\ MigUnchanged

\* ctx->ring_pages[idx] = new; spin_unlock_irqrestore; put_page(old).
aio_migratepage_assign ==
    /\ mig.m.pc = "assign"
    /\ mig' = [mig EXCEPT !.ring_pages[mig.m.idx + 1] = mig.m.new,
                          !.replaced = Append(@, [held |-> mig.m.order,
                                                  found |-> mig.ring_pages[mig.m.idx + 1],
                                                  old |-> mig.m.old]),
                          !.completion_lock = "free",
                          !.put = @ \cup {mig.m.old},
                          !.stray = @ \/ ~mig.private_data,
                          !.m.pc = "out_unlock"]
    /\ MigUnchanged

\* out_unlock: mutex_unlock(&ctx->ring_lock)
aio_migratepage_out_unlock ==
    /\ mig.m.pc = "out_unlock"
    /\ mig' = [mig EXCEPT !.ring_lock = "free", !.m.pc = "out",
                          !.stray = @ \/ ~mig.private_data]
    /\ MigUnchanged

\* out: spin_unlock(&mapping->private_lock); return rc.
aio_migratepage_out ==
    /\ mig.m.pc = "out"
    /\ mig' = [mig EXCEPT !.private_lock = "free", !.m.pc = "idle", !.m.order = <<>>]
    /\ MigUnchanged

\* aio_complete: spin_lock_irqsave(&ctx->completion_lock, flags) and
\* ev_page = kmap_atomic(ctx->ring_pages[pos / AIO_EVENTS_PER_PAGE]).
aio_complete_kmap ==
    /\ mig.c.pc = "idle" /\ mig.t = "idle"
    /\ mig.published < MaxEvents
    /\ mig.completion_lock = "free"
    /\ mig' = [mig EXCEPT !.completion_lock = "complete",
                          !.c = [pc |-> "store", page |-> mig.ring_pages[1]]]
    /\ MigUnchanged

\* The stores into the event, ctx->tail and the ring header.
aio_complete_store ==
    /\ mig.c.pc = "store"
    /\ mig' = [mig EXCEPT !.content[mig.c.page] = @ \cup {mig.published + 1},
                          !.published = @ + 1,
                          !.stray = @ \/ mig.c.page \in mig.put,
                          !.c.pc = "unlock"]
    /\ MigUnchanged

\* spin_unlock_irqrestore(&ctx->completion_lock, flags)
aio_complete_unlock ==
    /\ mig.c.pc = "unlock"
    /\ mig' = [mig EXCEPT !.completion_lock = "free", !.c.pc = "idle"]
    /\ MigUnchanged

\* aio_read_events_ring: mutex_lock(&ctx->ring_lock).
aio_read_events_ring_mutex ==
    /\ mig.r.pc = "idle" /\ mig.t = "idle"
    /\ mig.ring_lock = "free"
    /\ mig' = [mig EXCEPT !.ring_lock = "read", !.r.pc = "kmap"]
    /\ MigUnchanged

\* The events read through ctx->ring_pages under ring_lock.
aio_read_events_ring_kmap ==
    /\ mig.r.pc = "kmap"
    /\ mig' = [mig EXCEPT !.r = [pc |-> "unlock", seen |-> mig.content[mig.ring_pages[1]]],
                          !.stray = @ \/ mig.ring_pages[1] \in mig.put]
    /\ MigUnchanged

aio_read_events_ring_mutex_unlock ==
    /\ mig.r.pc = "unlock"
    /\ mig' = [mig EXCEPT !.ring_lock = "free", !.r.pc = "idle"]
    /\ MigUnchanged

\* put_aio_ring_file, called by aio_free_ring when no request and no
\* system call uses the context any more: mapping->private_data = NULL
\* under mapping->private_lock.
put_aio_ring_file ==
    /\ mig.t = "idle"
    /\ mig.c.pc = "idle" /\ mig.r.pc = "idle"
    /\ mig.private_lock = "free"
    /\ mig' = [mig EXCEPT !.private_data = FALSE, !.t = "disconnected"]
    /\ MigUnchanged

\* aio_free_ring: put_page of every ring page.
aio_free_ring ==
    /\ mig.t = "disconnected"
    /\ mig' = [mig EXCEPT !.put = @ \cup { mig.ring_pages[k] : k \in 1 .. Len(mig.ring_pages) },
                          !.t = "freed"]
    /\ MigUnchanged

InitMigrate == InitRing(3)

NextMigrate ==
    \/ \E old \in MigPages, new \in MigPages, idx \in 0 .. 1 : aio_migratepage_enter(old, new, idx)
    \/ aio_migratepage_trylock
    \/ \E rc \in {MIGRATEPAGE_SUCCESS, -EAGAIN} : aio_migratepage_check(rc)
    \/ aio_migratepage_lock
    \/ aio_migratepage_copy
    \/ aio_migratepage_assign
    \/ aio_migratepage_out_unlock
    \/ aio_migratepage_out
    \/ aio_complete_kmap
    \/ aio_complete_store
    \/ aio_complete_unlock
    \/ aio_read_events_ring_mutex
    \/ aio_read_events_ring_kmap
    \/ aio_read_events_ring_mutex_unlock
    \/ put_aio_ring_file
    \/ aio_free_ring

SpecMigrate == InitMigrate /\ [][NextMigrate]_vars

(* ----------------------------- aio_openat ------------------------------ *)

\* The descriptor numbers of the task's table.
Fds == 0 .. 4
EMFILE == 24

OaUnchanged ==
    UNCHANGED <<ctxvars, refvars, ringvars, reqvars, callvars, histvars, sysvars, procvars,
                percpu, reap, tab, mig, ghostvars>>

\* get_unused_fd_flags: the lowest descriptor not in use, -EMFILE with none.
get_unused_fd_flags(open_fds) ==
    IF Fds \ open_fds = {} THEN -EMFILE
    ELSE CHOOSE fd \in Fds \ open_fds : \A g \in Fds \ open_fds : fd <= g

\* aio_openat up to get_unused_fd_flags.  early: build_open_flags or
\* getname fails and the request completes with the error, no destructor
\* set.
aio_openat_enter(r, early) ==
    /\ oa.req[r].pc = "idle"
    /\ LET fd == get_unused_fd_flags(oa.open_fds) IN
       oa' = IF early
             THEN [oa EXCEPT !.req[r] = [@ EXCEPT !.pc = "complete", !.res = -EINVAL]]
             ELSE [oa EXCEPT !.req[r] = [@ EXCEPT !.pc = IF fd >= 0 THEN "open" ELSE "complete",
                                                  !.ki_data = fd, !.destruct = TRUE,
                                                  !.res = fd, !.fd = fd],
                             !.open_fds = IF fd >= 0 THEN @ \cup {fd} ELSE @]
    /\ OaUnchanged

\* put_unused_fd(fd)
put_unused_fd(o, r, fd) ==
    [o EXCEPT !.open_fds = @ \ {fd}, !.req[r].puts = @ + 1]

\* fd_install(fd, f)
fd_install(o, r, fd) ==
    [o EXCEPT !.files = @ \cup {fd}, !.req[r].installed = TRUE]

\* do_filp_open with LOOKUP_RCU | LOOKUP_NONBLOCK and the three branches
\* after it: f is a file, an error that needs the worker, another error.
aio_openat_open(r, f) ==
    /\ oa.req[r].pc = "open"
    /\ LET fd == oa.req[r].fd IN
       oa' = CASE f = "file" ->
                    [fd_install(oa, r, fd) EXCEPT !.req[r].pc = "complete", !.req[r].res = fd]
               [] f = "retry" -> [oa EXCEPT !.req[r].pc = "queue"]
               [] OTHER ->
                    [put_unused_fd(oa, r, fd) EXCEPT !.req[r].pc = "complete",
                                                    !.req[r].res = -EINVAL]
    /\ OaUnchanged

\* aio_thread_queue_iocb: -EIOCBQUEUED, or -EINVAL when threads may not
\* be used, and then put_unused_fd(fd); fd = ret.
aio_openat_queue(r, ok) ==
    /\ oa.req[r].pc = "queue"
    /\ oa' = IF ok
             THEN [oa EXCEPT !.req[r].pc = "queued"]
             ELSE [put_unused_fd(oa, r, oa.req[r].fd) EXCEPT !.req[r].pc = "complete",
                                                            !.req[r].res = -EINVAL]
    /\ OaUnchanged

\* req->ki_data = -1 in aio_thread_op_openat
installed_ki_data(fd) == -1

\* aio_thread_fn for the request: -EINTR when it was cancelled before, else
\* aio_thread_op_openat, where do_filp_open gives a file or an error.
aio_thread_op_openat(r, cancelled, f) ==
    /\ oa.req[r].pc = "queued"
    /\ LET fd == oa.req[r].ki_data IN
       oa' = IF cancelled
             THEN [oa EXCEPT !.req[r].pc = "complete", !.req[r].res = -EINTR]
             ELSE IF f = "file"
             THEN [fd_install(oa, r, fd) EXCEPT !.req[r].pc = "complete",
                                               !.req[r].ki_data = installed_ki_data(fd),
                                               !.req[r].res = fd]
             ELSE [oa EXCEPT !.req[r].pc = "complete", !.req[r].res = -EINVAL]
    /\ OaUnchanged

\* aio_complete of the request: kiocb_free calls ki_destruct_fn, and
\* openat_destruct does put_unused_fd(fd) when ki_data >= 0.
aio_complete_openat(r) ==
    /\ oa.req[r].pc = "complete"
    /\ oa' = IF oa.req[r].destruct /\ oa.req[r].ki_data >= 0
             THEN [put_unused_fd(oa, r, oa.req[r].ki_data) EXCEPT !.req[r].pc = "freed"]
             ELSE [oa EXCEPT !.req[r].pc = "freed"]
    /\ OaUnchanged

InitOpenat == InitRing(3)

NextOpenat ==
    \/ \E r \in Reqs, early \in BOOLEAN : aio_openat_enter(r, early)
    \/ \E r \in Reqs, f \in {"file", "retry", "error"} : aio_openat_open(r, f)
    \/ \E r \in Reqs, ok \in BOOLEAN : aio_openat_queue(r, ok)
    \/ \E r \in Reqs, cancelled \in BOOLEAN, f \in {"file", "error"} :
          aio_thread_op_openat(r, cancelled, f)
    \/ \E r \in Reqs : aio_complete_openat(r)

SpecOpenat == InitOpenat /\ [][NextOpenat]_vars

(* ------------------------------- locks -------------------------------- *)

\* mm->ioctx_lock, ctx->ring_lock, ctx->ctx_lock and ctx->completion_lock,
\* and the two locks of other subsystems that the paths below take.
CtxLocks == {"ioctx_lock", "ring_lock", "ctx_lock", "completion_lock"}
Locks == CtxLocks \cup {"aio_nr_lock", "private_lock"}

Lock(l) == [op |-> "lock", l |-> l, else |-> 0]
Unlock(l) == [op |-> "unlock", l |-> l, else |-> 0]
\* mutex_trylock: on failure the path goes on at position else.
TryLock(l, else) == [op |-> "trylock", l |-> l, else |-> else]

\* ioctx_alloc with ioctx_add_table: mutex_lock(&ctx->ring_lock) (806),
\* aio_nr_lock (831-839), then in ioctx_add_table mm->ioctx_lock, dropped
\* and taken again around the kzalloc of a larger table (705, 727, 736,
\* 714), and mutex_unlock (849).
ioctx_alloc_locks ==
    << Lock("ring_lock"), Lock("aio_nr_lock"), Unlock("aio_nr_lock"),
       Lock("ioctx_lock"), Unlock("ioctx_lock"),
       Lock("ioctx_lock"), Unlock("ioctx_lock"), Unlock("ring_lock") >>

\* ioctx_alloc when ioctx_add_table fails: err_cleanup with aio_nr_sub
\* (756-761) and aio_free_ring, whose put_aio_ring_file takes the mapping's
\* private_lock (329-332), before mutex_unlock (863).
ioctx_alloc_err_locks ==
    << Lock("ring_lock"), Lock("aio_nr_lock"), Unlock("aio_nr_lock"),
       Lock("ioctx_lock"), Unlock("ioctx_lock"),
       Lock("aio_nr_lock"), Unlock("aio_nr_lock"),
       Lock("private_lock"), Unlock("private_lock"), Unlock("ring_lock") >>

\* ioctx_alloc over the aio_nr limit: err_ctx (857-861) without the
\* aio_nr_sub, aio_free_ring under ring_lock as above.
ioctx_alloc_err_ctx_locks ==
    << Lock("ring_lock"), Lock("aio_nr_lock"), Unlock("aio_nr_lock"),
       Lock("private_lock"), Unlock("private_lock"), Unlock("ring_lock") >>

\* kill_ioctx (882-891) and its aio_nr_sub.
kill_ioctx_locks ==
    << Lock("ioctx_lock"), Unlock("ioctx_lock"),
       Lock("aio_nr_lock"), Unlock("aio_nr_lock") >>

\* aio_ring_mremap (371-388).
aio_ring_mremap_locks == << Lock("ioctx_lock"), Unlock("ioctx_lock") >>

\* aio_migratepage: private_lock (424), mutex_trylock of ring_lock (435),
\* completion_lock around the page copy (465-469), and the unlocks
\* (475, 477).
aio_migratepage_locks_mut ==
    << Lock("private_lock"), Lock("ring_lock"),
       Lock("completion_lock"), Unlock("completion_lock"),
       Unlock("ring_lock"), Unlock("private_lock") >>

aio_migratepage_locks ==
    << Lock("private_lock"), TryLock("ring_lock", 6),
       Lock("completion_lock"), Unlock("completion_lock"),
       Unlock("ring_lock"), Unlock("private_lock") >>

\* io_submit_one on a request that needs a refill and sets a cancel
\* function: user_refill_reqs_available (1047-1068), kiocb_set_cancel_fn
\* (594-601).
io_submit_one_locks ==
    << Lock("completion_lock"), Unlock("completion_lock"),
       Lock("ctx_lock"), Unlock("ctx_lock") >>

aio_complete_locks_mut ==
    << Lock("completion_lock"), Lock("ctx_lock"), Unlock("ctx_lock"),
       Unlock("completion_lock") >>

\* aio_complete: ctx_lock around the list_del (1165-1167), then
\* completion_lock around the event and tail stores and
\* refill_reqs_available (1175-1214).
aio_complete_locks ==
    << Lock("ctx_lock"), Unlock("ctx_lock"),
       Lock("completion_lock"), Unlock("completion_lock") >>

\* aio_read_events_ring (1262-1323).
aio_read_events_ring_locks == << Lock("ring_lock"), Unlock("ring_lock") >>

\* io_cancel (2421-2429).
io_cancel_locks == << Lock("ctx_lock"), Unlock("ctx_lock") >>

\* free_ioctx_users (683-693): the drain of active_reqs.
free_ioctx_users_locks == << Lock("ctx_lock"), Unlock("ctx_lock") >>

\* free_ioctx's aio_free_ring: put_aio_ring_file (329-332), with no other
\* lock held.
aio_free_ring_locks == << Lock("private_lock"), Unlock("private_lock") >>

\* The paths: setup, its two failures, destroy, the drain and the free of
\* teardown, mremap, migration, submit with refill, complete, reap, cancel.
LockPaths ==
    [ setup |-> ioctx_alloc_locks, setup_err |-> ioctx_alloc_err_locks,
      setup_err_ctx |-> ioctx_alloc_err_ctx_locks,
      drain |-> free_ioctx_users_locks, free |-> aio_free_ring_locks,
      destroy |-> kill_ioctx_locks, mremap |-> aio_ring_mremap_locks,
      migrate |-> aio_migratepage_locks, submit |-> io_submit_one_locks,
      complete |-> aio_complete_locks, reap |-> aio_read_events_ring_locks,
      cancel |-> io_cancel_locks ]

PathNames == DOMAIN LockPaths

\* The locks some followed thread holds.
HeldLocks == UNION { { lk[t].held[i] : i \in 1 .. Len(lk[t].held) } : t \in LockThreads }

\* seq without its element l.
Release(seq, l) == SelectSeq(seq, LAMBDA x : x # l)

\* A thread enters one of the paths.
lock_path_enter(t, p) ==
    /\ lk[t].path = "none"
    /\ lk' = [lk EXCEPT ![t] = [path |-> p, pos |-> 1, held |-> <<>>, rc |-> 0]]
    /\ UNCHANGED <<ctxvars, refvars, ringvars, reqvars, callvars, histvars, sysvars,
                   kc, ioctx_tbl, kx, su, xa, auxvars>>

\* The thread's next lock operation: spin_lock and mutex_lock wait for the
\* lock to be free, mutex_trylock gives up when it is not, with rc = -EAGAIN
\* as in aio_migratepage; after the last operation the thread has left the
\* path.
lock_path_step(t) ==
    /\ lk[t].path # "none"
    /\ LET path == LockPaths[lk[t].path]
           o == path[lk[t].pos]
           free == o.l \notin HeldLocks
           took == o.op \in {"lock", "trylock"} /\ free
           nxt == IF o.op = "trylock" /\ ~free THEN o.else ELSE lk[t].pos + 1
           held == IF took THEN Append(lk[t].held, o.l)
                   ELSE IF o.op = "unlock" THEN Release(lk[t].held, o.l)
                   ELSE lk[t].held
           rc == IF o.op = "trylock" /\ ~free THEN -EAGAIN ELSE lk[t].rc
       IN /\ o.op = "lock" => free
          /\ lk' = [lk EXCEPT ![t] =
                      IF nxt > Len(path)
                      THEN [path |-> "none", pos |-> 0, held |-> held, rc |-> rc]
                      ELSE [path |-> lk[t].path, pos |-> nxt, held |-> held, rc |-> rc]]
    /\ UNCHANGED <<ctxvars, refvars, ringvars, reqvars, callvars, histvars, sysvars,
                   kc, ioctx_tbl, kx, su, xa, auxvars>>

NextLocks ==
    \/ \E t \in LockThreads, p \in PathNames : lock_path_enter(t, p)
    \/ \E t \in LockThreads : lock_path_step(t)

SpecLocks == Init /\ [][NextLocks]_vars

(* ------------------- the contexts of one mm, aio_nr -------------------- *)

\* /proc/sys/fs/aio-max-nr as configured here.
aio_max_nr == 16

\* nr_events as io_setup is called with: an unsigned of 32 bits, written
\* hi * 2^31 + lo with lo below 2^30.
SetupSizes ==
    { [hi |-> 0, lo |-> 1], [hi |-> 0, lo |-> 40], [hi |-> 0, lo |-> 5000000],
      [hi |-> 1, lo |-> 8] }

\* ioctx_alloc: nr_events = max(nr_events, num_possible_cpus() * 4);
\* nr_events *= 2, in unsigned arithmetic of 32 bits: the doubling drops
\* the top bit.
ioctx_alloc_nr_events(n) ==
    IF n.hi = 1 THEN 2 * n.lo ELSE ioctx_alloc_max_reqs(n.lo)

\* The variables of the context followed in detail and of the followed
\* threads.
ctxdetail ==
    <<ctxvars, refvars, ringvars, reqvars, callvars, histvars, ring_id, gev, sub,
      ki_freed, uaf, wtask, result, peak, kc, lk, auxvars>>

\* The contexts in mm->ioctx_table.
Installed == { ioctx_tbl[i] : i \in 1 .. Len(ioctx_tbl) } \ {NoCtx}


\* A kioctx object kmem_cache_zalloc can return.
FreeCtx == CHOOSE c \in Ctxs : ~kx[c].alloc

\* ioctx_alloc before the allocation: 0, or the error it returns.
ioctx_alloc_check(n) ==
    LET nr_events_2 == ioctx_alloc_nr_events(n)
    IN IF nr_events_2 > 268435456 \div 32 THEN -EINVAL
       ELSE IF nr_events_2 = 0 \/ nr_events_2 > aio_max_nr * 2 THEN -EAGAIN
       ELSE 0

\* The task's call has returned ret.
Returns(t, ret) == [TaskIdle EXCEPT !.ret = ret]

\* sys_io_setup up to ioctx_alloc's "limit the number of system wide aios":
\* the checks of nr_events, kmem_cache_zalloc, the percpu_ref_init of users
\* and reqs, alloc_percpu and aio_setup_ring; a failed allocation returns
\* -ENOMEM through err.
ioctx_alloc_enter(t, nr, ok) ==
    /\ su[t].pc = "idle" /\ xa.pc = "none"
    /\ \E c \in Ctxs : ~kx[c].alloc
    /\ IF ioctx_alloc_check(nr) # 0
       THEN /\ su' = [su EXCEPT ![t] = Returns(t, ioctx_alloc_check(nr))]
            /\ UNCHANGED kx
       ELSE IF ~ok
       THEN /\ su' = [su EXCEPT ![t] = Returns(t, -ENOMEM)]
            /\ UNCHANGED kx
       ELSE /\ kx' = [kx EXCEPT ![FreeCtx] =
                        [KxFree EXCEPT !.alloc = TRUE,
                                       !.max_reqs = ioctx_alloc_nr_events(nr),
                                       !.mmap_size = aio_setup_ring(ioctx_alloc_nr_events(nr)),
                                       !.users = 1, !.reqs = 1]]
            /\ su' = [su EXCEPT ![t] = [TaskIdle EXCEPT !.pc = "a_nr", !.op = "setup",
                                                        !.ctx = FreeCtx, !.nr = nr]]
    /\ UNCHANGED <<ctxdetail, aio_nr, ioctx_tbl, xa>>

\* aio_nr + nr_events > (aio_max_nr * 2UL)
aio_nr_limit(cur, nr_events_2) == cur + nr_events_2 > aio_max_nr * 2

\* ioctx_alloc under aio_nr_lock: over the limit it returns -EAGAIN through
\* err_ctx, which frees the context; otherwise aio_nr += ctx->max_reqs, and
\* the two percpu_ref_get.
ioctx_alloc_nr(t) ==
    /\ su[t].pc = "a_nr"
    /\ LET c == su[t].ctx
       IN IF aio_nr_limit(aio_nr, kx[c].max_reqs)
          THEN /\ kx' = [kx EXCEPT ![c] = KxFree]
               /\ su' = [su EXCEPT ![t] = Returns(t, -EAGAIN)]
               /\ UNCHANGED aio_nr
          ELSE /\ aio_nr' = aio_nr + kx[c].max_reqs
               /\ kx' = [kx EXCEPT ![c].users = @ + 1, ![c].reqs = @ + 1]
               /\ su' = [su EXCEPT ![t].pc = "a_table"]
    /\ UNCHANGED <<ctxdetail, ioctx_tbl, xa>>

\* The table with ctx in its first free slot.
table_insert(tbl, c) ==
    LET i == CHOOSE k \in 1 .. Len(tbl) :
                 tbl[k] = NoCtx /\ \A j \in 1 .. (k - 1) : tbl[j] # NoCtx
    IN [tbl EXCEPT ![i] = c]

HasFreeSlot(tbl) == \E k \in 1 .. Len(tbl) : tbl[k] = NoCtx

\* ioctx_add_table under mm->ioctx_lock: the context goes into the first
\* free slot and ioctx_alloc returns it; with no table or no free slot the
\* lock is dropped for the kzalloc of a table of new_nr slots.
ioctx_add_table_search(t) ==
    /\ su[t].pc = "a_table"
    /\ IF HasFreeSlot(ioctx_tbl)
       THEN /\ ioctx_tbl' = table_insert(ioctx_tbl, su[t].ctx)
            /\ su' = [su EXCEPT ![t].pc = "s_put"]
       ELSE /\ su' = [su EXCEPT ![t].pc = "a_grow"]
            /\ UNCHANGED ioctx_tbl
    /\ UNCHANGED <<ctxdetail, aio_nr, kx, xa>>

\* new_nr = (table ? table->nr : 1) * 4 for the table seen by the search.
new_nr == 4

\* ioctx_add_table after the search found no slot: kzalloc fails and
\* -ENOMEM is returned, or the lock is taken again, the new table is
\* installed unless another task installed one as large, and the search
\* of the next turn of the loop puts the context in.
ioctx_add_table_grow(t, ok) ==
    /\ su[t].pc = "a_grow"
    /\ IF ~ok
       THEN /\ su' = [su EXCEPT ![t].pc = "a_cleanup"]
            /\ UNCHANGED ioctx_tbl
       ELSE LET tbl == IF ioctx_tbl = NoTable THEN [k \in 1 .. new_nr |-> NoCtx]
                       ELSE ioctx_tbl
            IN /\ HasFreeSlot(tbl)
               /\ ioctx_tbl' = table_insert(tbl, su[t].ctx)
               /\ su' = [su EXCEPT ![t].pc = "s_put"]
    /\ UNCHANGED <<ctxdetail, aio_nr, kx, xa>>

\* ioctx_alloc's err_cleanup after ioctx_add_table failed:
\* aio_nr_sub(ctx->max_reqs), and the context is freed.
ioctx_alloc_cleanup(t) ==
    /\ su[t].pc = "a_cleanup"
    /\ aio_nr' = aio_nr_sub(aio_nr, kx[su[t].ctx].max_reqs)
    /\ kx' = [kx EXCEPT ![su[t].ctx] = KxFree]
    /\ su' = [su EXCEPT ![t] = Returns(t, -ENOMEM)]
    /\ UNCHANGED <<ctxdetail, ioctx_tbl, xa>>

\* percpu_ref_put(&ctx->users) on the context's record.
put_users(k) ==
    [k EXCEPT !.users = @ - 1,
              !.cb = IF RefFires(k.users, k.users_dying, 1) THEN "users" ELSE @]

\* percpu_ref_put(&ctx->reqs) on the context's record.
put_reqs(k) ==
    [k EXCEPT !.reqs = @ - 1,
              !.cb = IF RefFires(k.reqs, k.reqs_dying, 1) THEN "reqs" ELSE @]

\* sys_io_setup after ioctx_alloc returned the context: put_user of the
\* handle; when it faults kill_ioctx(current->mm, ioctx, NULL) comes first;
\* then percpu_ref_put(&ioctx->users).
io_setup_put_user(t, fault) ==
    /\ su[t].pc = "s_put"
    /\ IF fault
       THEN /\ su' = [su EXCEPT ![t].pc = "k_xchg", ![t].ret = -EFAULT]
            /\ UNCHANGED kx
       ELSE /\ kx' = [kx EXCEPT ![su[t].ctx] = put_users(@)]
            /\ su' = [su EXCEPT ![t] = Returns(t, 0)]
    /\ UNCHANGED <<ctxdetail, aio_nr, ioctx_tbl, xa>>

\* sys_io_destroy: lookup_ioctx finds the context in the table and takes a
\* users reference, or -EINVAL is returned; init_completion and
\* atomic_set(&wait.count, 1).
io_destroy_enter(t, c) ==
    /\ su[t].pc = "idle" /\ xa.pc = "none"
    /\ IF c \in Installed
       THEN /\ kx' = [kx EXCEPT ![c].users = @ + 1]
            /\ su' = [su EXCEPT ![t] =
                        [TaskIdle EXCEPT !.pc = "k_xchg", !.op = "destroy", !.ctx = c,
                                         !.wait = [count |-> 1, done |-> FALSE]]]
       ELSE /\ su' = [su EXCEPT ![t] = Returns(t, -EINVAL)]
            /\ UNCHANGED kx
    /\ UNCHANGED <<ctxdetail, aio_nr, ioctx_tbl, xa>>

\* The table with the context's slot cleared.
table_clear(tbl, c) == [k \in 1 .. Len(tbl) |-> IF tbl[k] = c THEN NoCtx ELSE tbl[k]]

\* kill_ioctx under mm->ioctx_lock, called by io_destroy or io_setup: when
\* atomic_xchg(&ctx->dead, 1) finds the context dead -EINVAL is returned,
\* otherwise the table slot is cleared.
kill_ioctx_locked(t) ==
    /\ su[t].pc = "k_xchg"
    /\ LET c == su[t].ctx
       IN IF kx[c].dead
          THEN /\ su' = [su EXCEPT ![t].pc = "k_put", ![t].ret = -EINVAL]
               /\ UNCHANGED <<kx, ioctx_tbl>>
          ELSE /\ kx' = [kx EXCEPT ![c].dead = TRUE]
               /\ ioctx_tbl' = table_clear(ioctx_tbl, c)
               /\ su' = [su EXCEPT ![t].pc = "k_rest"]
    /\ UNCHANGED <<ctxdetail, aio_nr, xa>>

\* kill_ioctx after the unlock, on the context's record: vm_munmap when
\* ctx->mmap_size is not zero, ctx->rq_wait = wait,
\* percpu_ref_kill(&ctx->users).
kill_ioctx_unlocked(k, wait) ==
    [k EXCEPT !.unmapped = (k.mmap_size # 0),
              !.rq_wait = wait,
              !.users_dying = TRUE,
              !.users = @ - 1,
              !.cb = IF RefFires(k.users, TRUE, 1) THEN "users" ELSE @]

\* kill_ioctx after the unlock, called by io_destroy with its wait or by
\* io_setup with NULL: aio_nr_sub(ctx->max_reqs) and the rest.
kill_ioctx_tail(t) ==
    /\ su[t].pc = "k_rest"
    /\ LET c == su[t].ctx
       IN /\ aio_nr' = aio_nr_sub(aio_nr, kx[c].max_reqs)
          /\ kx' = [kx EXCEPT ![c] =
                      kill_ioctx_unlocked(@, IF su[t].op = "destroy" THEN t ELSE NoWait)]
    /\ su' = [su EXCEPT ![t].pc = "k_put"]
    /\ UNCHANGED <<ctxdetail, ioctx_tbl, xa>>

\* percpu_ref_put(&ioctx->users) after kill_ioctx: io_setup returns
\* -EFAULT, io_destroy returns -EINVAL when kill_ioctx did, and otherwise
\* goes on to wait_for_completion(&wait.comp).
kill_ioctx_put(t) ==
    /\ su[t].pc = "k_put"
    /\ kx' = [kx EXCEPT ![su[t].ctx] = put_users(@)]
    /\ su' = [su EXCEPT ![t] =
                IF su[t].op = "destroy" /\ su[t].ret = 0
                THEN [su[t] EXCEPT !.pc = "d_wait"]
                ELSE Returns(t, su[t].ret)]
    /\ UNCHANGED <<ctxdetail, aio_nr, ioctx_tbl, xa>>

\* io_destroy's wait_for_completion(&wait.comp) returns.
io_destroy_done(t) ==
    /\ su[t].pc = "d_wait"
    /\ su[t].wait.done
    /\ su' = [su EXCEPT ![t] = Returns(t, 0)]
    /\ UNCHANGED <<ctxdetail, aio_nr, ioctx_tbl, kx, xa>>

\* Requests in flight on a context at once.
MaxInflight == 1

\* io_submit on a context in the table: aio_get_req takes a reference on
\* ctx->reqs for the request, which stays in flight.
ctx_submit(c) ==
    /\ xa.pc = "none"
    /\ c \in Installed
    /\ kx[c].nreq < MaxInflight
    /\ kx' = [kx EXCEPT ![c].nreq = @ + 1, ![c].reqs = @ + 1]
    /\ UNCHANGED <<ctxdetail, aio_nr, ioctx_tbl, su, xa>>

\* aio_complete of a request in flight: percpu_ref_put(&ctx->reqs).
ctx_complete(c) ==
    /\ kx[c].nreq > 0
    /\ kx' = [kx EXCEPT ![c] = put_reqs([@ EXCEPT !.nreq = @ - 1])]
    /\ UNCHANGED <<ctxdetail, aio_nr, ioctx_tbl, su, xa>>

\* free_ioctx_users, the release of ctx->users: the active requests are
\* cancelled, percpu_ref_kill(&ctx->reqs) drops the initial reference and
\* percpu_ref_put(&ctx->reqs) the one ioctx_alloc took.
ctx_free_ioctx_users(c) ==
    /\ kx[c].cb = "users"
    /\ kx' = [kx EXCEPT ![c] =
                [@ EXCEPT !.reqs_dying = TRUE,
                          !.reqs = @ - 2,
                          !.cb = IF RefFires(kx[c].reqs, TRUE, 2) THEN "reqs" ELSE "none"]]
    /\ UNCHANGED <<ctxdetail, aio_nr, ioctx_tbl, su, xa>>

atomic_sub_and_test_mut(i, v) == TRUE

\* atomic_sub_and_test(i, v), atomic_dec_and_test(v): the new value is 0.
atomic_sub_and_test(i, v) == v - i = 0

\* The wait after free_ioctx_reqs' atomic_dec_and_test and complete().
rq_wait_dec(w) ==
    [count |-> w.count - 1, done |-> w.done \/ atomic_sub_and_test(1, w.count)]

\* free_ioctx_reqs, the release of ctx->reqs: if (ctx->rq_wait &&
\* atomic_dec_and_test(&ctx->rq_wait->count)) complete(&ctx->rq_wait->comp);
\* free_ioctx then frees the context.
ctx_free_ioctx_reqs(c) ==
    /\ kx[c].cb = "reqs"
    /\ kx' = [kx EXCEPT ![c] = KxFree]
    /\ IF kx[c].rq_wait = NoWait
       THEN UNCHANGED <<su, xa>>
       ELSE IF kx[c].rq_wait = ExitWait
       THEN /\ xa' = [xa EXCEPT !.wait = rq_wait_dec(@), !.drained = @ \cup {c}]
            /\ UNCHANGED su
       ELSE /\ su' = [su EXCEPT ![kx[c].rq_wait].wait = rq_wait_dec(@)]
            /\ UNCHANGED xa
    /\ UNCHANGED <<ctxdetail, aio_nr, ioctx_tbl>>

\* exit_aio when the last user of the mm is gone: it returns when there is
\* no table, else atomic_set(&wait.count, table->nr), init_completion,
\* skipped = 0.
exit_aio_enter ==
    /\ xa.pc = "none"
    /\ \A t \in Tasks : su[t].pc = "idle"
    /\ xa' = IF ioctx_tbl = NoTable
             THEN [XaNone EXCEPT !.pc = "returned"]
             ELSE [XaNone EXCEPT !.pc = "loop", !.i = 1,
                                 !.wait = [count |-> Len(ioctx_tbl), done |-> FALSE],
                                 !.present = Installed]
    /\ UNCHANGED <<ctxdetail, aio_nr, ioctx_tbl, kx, su>>

\* One turn of exit_aio's loop: an empty slot is counted in skipped; for a
\* context ctx->mmap_size = 0 and kill_ioctx(mm, ctx, &wait).
exit_aio_slot ==
    /\ xa.pc = "loop"
    /\ LET c == ioctx_tbl[xa.i]
           pc == IF xa.i = Len(ioctx_tbl) THEN "sub" ELSE "loop"
       IN IF c = NoCtx
          THEN /\ xa' = [xa EXCEPT !.skipped = @ + 1, !.i = @ + 1, !.pc = pc]
               /\ UNCHANGED <<aio_nr, ioctx_tbl, kx>>
          ELSE /\ xa' = [xa EXCEPT !.killed = @ \cup {c}, !.i = @ + 1, !.pc = pc]
               /\ ioctx_tbl' = table_clear(ioctx_tbl, c)
               /\ aio_nr' = aio_nr_sub(aio_nr, kx[c].max_reqs)
               /\ kx' = [kx EXCEPT ![c] =
                           kill_ioctx_unlocked([@ EXCEPT !.mmap_size = 0, !.dead = TRUE],
                                               ExitWait)]
    /\ UNCHANGED <<ctxdetail, su>>

\* exit_aio after the loop: if (!atomic_sub_and_test(skipped, &wait.count))
\* it goes to wait_for_completion.
exit_aio_sub ==
    /\ xa.pc = "sub"
    /\ xa' = [xa EXCEPT !.wait.count = @ - xa.skipped,
                        !.pc = IF atomic_sub_and_test(xa.skipped, xa.wait.count)
                               THEN "free" ELSE "wait",
                        !.blocked = ~atomic_sub_and_test(xa.skipped, xa.wait.count)]
    /\ UNCHANGED <<ctxdetail, aio_nr, ioctx_tbl, kx, su>>

\* exit_aio's wait_for_completion(&wait.comp) returns.
exit_aio_wait ==
    /\ xa.pc = "wait"
    /\ xa.wait.done
    /\ xa' = [xa EXCEPT !.pc = "free"]
    /\ UNCHANGED <<ctxdetail, aio_nr, ioctx_tbl, kx, su>>

\* exit_aio's end: RCU_INIT_POINTER(mm->ioctx_table, NULL), kfree(table).
exit_aio_free ==
    /\ xa.pc = "free"
    /\ ioctx_tbl' = NoTable
    /\ xa' = [xa EXCEPT !.pc = "returned"]
    /\ UNCHANGED <<ctxdetail, aio_nr, kx, su>>

\* No context, no table, aio_nr is 0.
InitMm == nr_events = 3 /\ InitFresh /\ InitRest /\ aio_nr = 0

NextMm ==
    \/ \E t \in Tasks, nr \in SetupSizes, ok \in BOOLEAN : ioctx_alloc_enter(t, nr, ok)
    \/ \E t \in Tasks : ioctx_alloc_nr(t)
    \/ \E t \in Tasks : ioctx_add_table_search(t)
    \/ \E t \in Tasks, ok \in BOOLEAN : ioctx_add_table_grow(t, ok)
    \/ \E t \in Tasks : ioctx_alloc_cleanup(t)
    \/ \E t \in Tasks, fault \in BOOLEAN : io_setup_put_user(t, fault)
    \/ \E t \in Tasks, c \in Ctxs : io_destroy_enter(t, c)
    \/ \E t \in Tasks : kill_ioctx_locked(t)
    \/ \E t \in Tasks : kill_ioctx_tail(t)
    \/ \E t \in Tasks : kill_ioctx_put(t)
    \/ \E t \in Tasks : io_destroy_done(t)
    \/ \E c \in Ctxs : ctx_submit(c)
    \/ \E c \in Ctxs : ctx_complete(c)
    \/ \E c \in Ctxs : ctx_free_ioctx_users(c)
    \/ \E c \in Ctxs : ctx_free_ioctx_reqs(c)
    \/ exit_aio_enter
    \/ exit_aio_slot
    \/ exit_aio_sub
    \/ exit_aio_wait
    \/ exit_aio_free

SpecMm == InitMm /\ [][NextMm]_vars

(* ============================ properties ============================== *)

\* The request's operation has ended: aio_complete returned, in the
\* submitter for an opcode function that returned a value, in the worker or
\* the interrupt otherwise.
OperationEnded(r) ==
    \/ wpc[r] \in {"t_cleanup", "done"}
    \/ wpc[r] = "none" /\ spc[r] = "ret_ok"

\* The obj and data of the request's io_event.
Descriptor(r) == [obj |-> UserIocb(r), data |-> UserData(r)]

\* C1: every accepted request gets exactly one completion record, carrying
\* its iocb pointer in obj and its cookie in data: never a second tail store
\* for the same request, one once its operation has ended, none for a
\* request whose submission failed; whatever io_cancel, the workers and the
\* teardown did in between.
C1_ExactlyOneRecord ==
    \A r \in Reqs :
        /\ npub[r] <= 1
        /\ OperationEnded(r) => npub[r] = 1
        /\ npub[r] = 1 => pubrec[r] = Descriptor(r)
        /\ spc[r] = "idle" => npub[r] = 0

\* A cancelled request of a context under teardown has ended with its one
\* record, and a request completed in the submitter has too.
C1_Witness ==
    /\ dead
    /\ \E r \in Reqs : wpc[r] = "done" /\ ncancel[r] = 1 /\ npub[r] = 1
    /\ \E r \in Reqs : wpc[r] = "none" /\ spc[r] = "ret_ok" /\ npub[r] = 1

\* The requests that hold a reserved slot and have not yet been counted in
\* completed_events: from the successful get_reqs_available to the tail
\* store of their aio_complete.
InFlight ==
    { r \in Reqs : \/ spc[r] \in {"s_fn", "c_event", "c_tail"}
                   \/ wpc[r] \in {"queued", "running", "native", "c_event", "c_tail"} }

RECURSIVE SumCpu(_)
SumCpu(S) == IF S = {} THEN 0
             ELSE LET c == CHOOSE x \in S : TRUE IN cpu[c] + SumCpu(S \ {c})

\* The admission counter total: the global count and the per-CPU counts.
CounterTotal == reqs_available + SumCpu(CPUs)

\* Records between the header's head and tail.
RecordsInRing == (ring_tail - ring_head) % nr_events

\* The slots between the header's head and tail.
SlotsInRing == { (ring_head + k) % nr_events : k \in 0 .. (RecordsInRing - 1) }

\* C2: the requests holding a reserved slot, in flight or completed with the
\* slot not yet credited back, are never more than nr_events - 1; so, with a
\* consumer that moves head only over records it has taken, the tail never
\* reaches the head of a ring that holds records (the records between head
\* and tail are exactly the untaken ones), every untaken record still has
\* its slot reserved, and no event store lands on an untaken record.
C2_ReservedBounded ==
    /\ Cardinality(InFlight) + completed_events <= nr_events - 1
    /\ Cardinality(unreaped) <= completed_events
    /\ SlotsInRing = unreaped
    /\ ~overwrote

\* The ring of two slots holds an untaken record: one more tail store would
\* put the tail on the head, and the submission that would lead to it has
\* just been refused after a refill that credited nothing.
C2_Witness ==
    /\ nr_events = 2 /\ unreaped = {0} /\ ring_tail = 1 /\ ring_head = 0
    /\ CounterTotal = 0
    /\ \E r \in Reqs : spc[r] = "s_ret" /\ sret[r] = -EAGAIN /\ refilled[r] = 0

C4_AsStated ==
    \A r \in Reqs : spc[r] = "s_ret" /\ sret[r] # 0 => delta[r] = 0

\* C4: a submission that returns failure has given back the slot it took;
\* its net effect on the counter total is the number of completed slots its
\* own user_refill_reqs_available credited back, never a loss.
C4_NoLostSlot ==
    \A r \in Reqs :
        spc[r] = "s_ret" /\ sret[r] # 0 => delta[r] = refilled[r] /\ refilled[r] >= 0

\* A submission refilled one slot, took it, and then failed on the file
\* descriptor.
C4_Witness ==
    \E r \in Reqs : spc[r] = "s_ret" /\ sret[r] = -EBADF /\ refilled[r] = 1

\* A request is being submitted or completed, or its operation is pending.
Busy(r) ==
    \/ spc[r] \notin {"idle", "ret_ok"}
    \/ wpc[r] \notin {"none", "t_cleanup", "done"}

\* C5: once io_destroy has returned 0, no request of the context is being
\* submitted, is pending or is inside aio_complete, the reqs reference is
\* down to zero and the completion lock is free; as this holds in every
\* state from the return on, no tail store follows it.
C5_TeardownDrains ==
    \A d \in Destroyers :
        dpc[d] = "d_done" /\ dret[d] = 0 =>
            /\ \A r \in Reqs : ~Busy(r) /\ (spc[r] = "ret_ok" => npub[r] = 1)
            /\ reqs = 0 /\ users = 0
            /\ active_reqs = {}
            /\ completion_lock = <<>>

\* io_destroy has returned 0 on a context whose drain cancelled a request
\* that io_cancel never touched, and that request has its record.
C5_Witness ==
    /\ \E d \in Destroyers : dpc[d] = "d_done" /\ dret[d] = 0
    /\ \A p \in Cancellers : kret[p] = 0
    /\ \E r \in Reqs : ncancel[r] = 1 /\ npub[r] = 1

\* A live cancel function is installed in ki_cancel.
LiveCancel(r) == ki_cancel[r] \in {CancelEarly, CancelLate}

\* C6: the cancel function of a request is invoked at most once, and only by
\* the kiocb_cancel that swapped a live function for KIOCB_CANCELLED; an
\* io_cancel on an active request returns the function's value (reported as
\* -EINPROGRESS) when it made that swap and -EINVAL when the request was
\* already cancelled, without invoking anything.
C6_SingleShot ==
    /\ [](\A r \in Reqs : ncancel[r] <= 1)
    /\ [][\A r \in Reqs :
            ncancel'[r] # ncancel[r] =>
                /\ LiveCancel(r) /\ ki_cancel'[r] = KIOCB_CANCELLED
                /\ ncancel'[r] = ncancel[r] + 1]_vars
    /\ [][\A p \in Cancellers, r \in Reqs :
            io_cancel(p, r, KIOCB_KEY) /\ lookup_ioctx /\ r \in active_reqs =>
                IF LiveCancel(r)
                THEN kret'[p] = -EINPROGRESS /\ ncancel'[r] = ncancel[r] + 1
                ELSE kret'[p] = -EINVAL /\ ncancel' = ncancel]_vars

\* Both requests are active and cancelled, each function invoked once, and
\* the last io_cancel, made on one of them after that, returned -EINVAL.
C6_Witness ==
    /\ \A r \in Reqs : r \in active_reqs /\ ki_cancel[r] = KIOCB_CANCELLED
                       /\ ncancel[r] = 1
    /\ \E p \in Cancellers : kret[p] = -EINVAL

\* The aio_complete calls that hold the completion lock.
InCritical == { x \in Reqs \X {"s", "w"} : PcOf(x[1], x[2]) = "c_tail" }

\* C7: publishes are serialized by the completion lock and go round the ring
\* in order: at most one aio_complete is between its event store and its
\* tail store; that event store is at the slot the kernel's tail indexes;
\* every tail store advances the tail by exactly one modulo nr_events and
\* publishes the slot the holder of the lock stored its record in; and no
\* event store lands on a record that has not been reaped.
C7_Fifo ==
    /\ [](/\ Cardinality(InCritical) <= 1
          /\ (completion_lock = <<>>) = (InCritical = {})
          /\ \A x \in InCritical : completion_lock = <<x[1]>> /\ last_store = tail
          /\ InCritical = {} /\ last_store >= 0 =>
                 last_store = (tail + nr_events - 1) % nr_events
          /\ tail \in Slots /\ ring_tail = tail
          /\ ~overwrote)
    /\ [][tail' # tail =>
            /\ tail' = (tail + 1) % nr_events
            /\ completion_lock # <<>> /\ completion_lock' = <<>>
            /\ last_store = tail
            /\ io_events[tail].obj = UserIocb(completion_lock[1])
            /\ io_events' = io_events]_vars

\* One aio_complete, in a worker, holds the completion lock while another,
\* in a submitter, waits for it.
C7_Witness ==
    \E r, q \in Reqs :
        /\ r # q
        /\ wpc[r] = "c_tail" /\ completion_lock = <<r>>
        /\ spc[q] = "c_event"

\* C8: whatever 32-bit value user space stores in the header's head, and
\* whenever it does: the kernel's tail stays an index of the ring and every
\* event store is at the slot it indexes; no aio_read_events_ring fails to
\* end or leaves the ring; and the slot accounting stays exact: a refill never
\* credits more than completed_events holds, so completed_events is never
\* negative and in-flight requests, completed_events and the counter total
\* still add up to nr_events - 1.
C8_HeaderSafety ==
    /\ tail \in Slots /\ ring_tail = tail
    /\ last_store \in -1 .. (nr_events - 1)
    /\ completion_lock # <<>> => last_store = tail
    /\ ~reap_bad
    /\ completed_events >= 0 /\ completed_events <= nr_events - 1
    /\ Cardinality(InFlight) + completed_events + CounterTotal = nr_events - 1

\* The header's head holds a value outside the ring, and a refill that
\* trusted it has credited back the slot of a record nobody reaped.
C8_Witness ==
    /\ ring_head \notin Slots
    /\ Cardinality(unreaped) > completed_events
    /\ \E r \in Reqs : npub[r] = 1

\* C9: the tail is advanced only over a slot whose record is completely
\* written: at every tail store the slot at the old tail already holds the
\* whole io_event of the completion that publishes it and the store changes
\* no record; so every slot between head and tail holds, with all four
\* fields, the record of the completion published there.
C9_PublicationOrder ==
    /\ [](/\ SlotsInRing = unreaped
          /\ \A i \in SlotsInRing : io_events[i] = shadow[i] /\ io_events[i].obj # 0)
    /\ [][ring_tail' # ring_tail =>
            /\ completion_lock # <<>>
            /\ io_events[ring_tail] = EventOf(completion_lock[1], kres[completion_lock[1]])
            /\ io_events' = io_events
            /\ tail' = ring_tail']_vars

\* One record is published and unreaped while the next completion has
\* stored its event and not yet its tail: the stored event is outside the
\* slots between head and tail.
C9_Witness ==
    /\ RecordsInRing = 1
    /\ \E r \in Reqs :
          /\ completion_lock = <<r>>
          /\ io_events[tail] = EventOf(r, kres[r])
          /\ tail \notin SlotsInRing

\* A system call or an aio_complete is using the context.
UsingCtx ==
    \/ \E r \in Reqs : Busy(r)
    \/ \E d \in Destroyers : dpc[d] \in {"d_kill", "d_kill2", "d_put"}

Winners ==
    { d \in Destroyers : \/ dpc[d] = "d_kill2"
                         \/ dpc[d] \in {"d_put", "d_wait", "d_done"} /\ dret[d] = 0 }

Carried == { d \in Winners : dpc[d] # "d_kill2" }

Losers == { d \in Destroyers : dpc[d] \in {"d_put", "d_done"} /\ dret[d] = -EINVAL }

\* C11: of the io_destroy calls racing on the context at most one finds dead
\* clear; dead is set and the table slot is cleared exactly when one has;
\* that caller's kill_ioctx releases the quota, unmaps the ring, sets rq_wait
\* and kills users, once (the quota goes down by one max_reqs, never two);
\* every other caller that reached kill_ioctx leaves it with -EINVAL and its
\* atomic_xchg step changes nothing of the context.
C11_OneTeardown ==
    /\ [](/\ Cardinality(Winners) <= 1
          /\ dead = (Winners # {})
          /\ table = ~dead
          /\ aio_nr = (IF Carried = {} THEN 2 ELSE 1)
          /\ mapped = (Carried = {})
          /\ users_dying = (Carried # {})
          /\ rq_wait \in {0} \cup Carried
          /\ (rq_wait = 0) = (Carried = {})
          /\ \A d \in Destroyers :
                dpc[d] \in {"d_put", "d_wait", "d_done"} => d \in Winners \cup Losers)
    /\ [][\A d \in Destroyers :
            kill_ioctx_xchg(d) /\ dead =>
                /\ dret'[d] = -EINVAL /\ dpc'[d] = "d_put"
                /\ UNCHANGED <<ctxvars, refvars, ringvars, reqvars, sysvars, procvars, auxvars>>]_vars

\* Two io_destroy calls are inside kill_ioctx: the one that found dead clear
\* has not yet carried out the teardown, the other has already lost.
C11_Witness ==
    \E d, e \in Destroyers :
        /\ dpc[d] = "d_kill2"
        /\ dpc[e] = "d_put" /\ dret[e] = -EINVAL
        /\ aio_nr = 2 /\ mapped /\ ~table

\* An io_destroy on the context has returned 0.
Destroyed == \E d \in Destroyers : dpc[d] = "d_done" /\ dret[d] = 0

Handles == {user_id("ctx"), user_id("other"), 4096}

\* C13: for every handle and every value of the header's id, lookup_ioctx
\* returns a context only when that context is the one installed at that
\* index of the table and its user_id is the handle; an id outside the table
\* gives NULL; so a header id that names another context's slot gives NULL
\* and never that context.  A system call takes its users reference only
\* when the header's id names the slot that still holds the context.
C13_LookupMatches ==
    /\ [](\A h \in Handles, id \in HostileIds :
            LET c == lookup_ioctx_at(h, id) IN
            /\ c # "NULL" => id < table_nr /\ ioctx_table[id] = c /\ user_id(c) = h
            /\ id >= table_nr => c = "NULL")
    /\ [][users' = users + 1 =>
            ring_id < table_nr /\ ioctx_table[ring_id] = "ctx" /\ table /\ ~dead]_vars

\* The header's id names the other context's slot, and an io_submit on the
\* still installed context has failed at the lookup; the other context's own
\* handle does resolve.
C13_Witness ==
    /\ ring_id = OtherId /\ table /\ ~dead
    /\ spc[2] = "idle" /\ sret[2] = -EINVAL
    /\ lookup_ioctx_at(user_id("other"), OtherId) = "other"

BatchCur == sub.iocbs[sub.i + 1]

\* C15: do_io_submit takes the entries in array order and stops at the first
\* one that fails: a request is started only as entry i + 1 of the array
\* with no failure so far; i grows by one exactly when io_submit_one
\* returned 0 and the loop ends when it returned anything else; the call
\* returns i when i >= 1, the failing entry's code when i = 0, and 0 for an
\* empty array; the first i entries were accepted and no entry after them
\* was.
C15_BatchOrder ==
    /\ [](sub.pc = "b_ret" =>
            /\ sub.i \in 0 .. sub.nr
            /\ sub.rv = (IF sub.i >= 1 THEN sub.i ELSE sub.ret)
            /\ (sub.i < sub.nr) = (sub.ret # 0)
            /\ sub.nr = 0 => sub.rv = 0
            /\ \A k \in 1 .. sub.nr :
                  IF k <= sub.i
                  THEN sub.iocbs[k] # 0 /\ spc[sub.iocbs[k]] = "ret_ok"
                  ELSE sub.iocbs[k] # 0 =>
                         /\ spc[sub.iocbs[k]] = "idle" /\ wpc[sub.iocbs[k]] = "none"
                         /\ npub[sub.iocbs[k]] = 0)
    /\ [][\A r \in Reqs :
            spc[r] = "idle" /\ spc'[r] # "idle" =>
                /\ sub.pc = "b_loop" /\ sub.ret = 0
                /\ sub.i < sub.nr /\ BatchCur = r]_vars
    /\ [][sub.pc = "b_one" /\ sub' # sub =>
            IF sret[BatchCur] = 0
            THEN sub' = [sub EXCEPT !.i = @ + 1, !.pc = "b_loop"]
            ELSE sub' = [sub EXCEPT !.ret = sret[BatchCur], !.pc = "b_out"]]_vars

\* A call with three entries returned 1: the first request was accepted,
\* the second entry could not be read, and the third was never submitted.
C15_Witness ==
    /\ sub.pc = "b_ret" /\ sub.iocbs = <<1, 0, 2>>
    /\ sub.i = 1 /\ sub.rv = 1 /\ sub.ret = -EFAULT
    /\ spc[1] = "ret_ok" /\ spc[2] = "idle" /\ wpc[2] = "none"

\* io_getevents was called with min_nr < 0 or min_nr > nr.
BadMinNr == gev.min_nr < 0 \/ gev.min_nr > gev.nr

Pending(r) == spc[r] = "ret_ok" /\ wpc[r] \in {"queued", "running"}

\* C18 as stated: on a context set up by io_setup(1), with one read
\* accepted and still pending and nothing reaped, a second io_submit of one
\* iocb returns -EAGAIN.
C18_SecondTryAgain ==
    \A r, t \in Reqs :
        r # t /\ Pending(r) /\ spc[t] = "s_ret" /\ ring_head = 0 => sret[t] = -EAGAIN

\* C18 amended: on that context the first get_reqs_available of every
\* io_submit succeeds, whatever is pending: the ring has room for more than
\* two requests, and -EAGAIN comes only from a failed kmem_cache_alloc.
C18_SecondAccepted ==
    /\ [](nr_events >= ioctx_alloc_max_reqs(1) + 2 /\ CounterTotal >= 1)
    /\ [][\A r \in Reqs :
            spc[r] = "s_one" /\ spc'[r] # "s_one" => spc'[r] = "s_fn"]_vars
    /\ [][\A r \in Reqs :
            sret'[r] = -EAGAIN /\ sret[r] # -EAGAIN => spc[r] = "s_fn"]_vars

\* Both reads are accepted and pending together, nothing completed or
\* reaped.
C18_Witness ==
    /\ \A r \in Reqs : Pending(r) /\ npub[r] = 0
    /\ ring_head = 0 /\ ring_tail = 0
    /\ nr_events = io_setup(1)

\* No completion has been published on the context.
NothingPublished == ring_tail = 0 /\ \A r \in Reqs : npub[r] = 0

\* Every io_submit finds a slot at its first get_reqs_available.
SubmitAccepts ==
    [][\A r \in Reqs : spc[r] = "s_one" /\ spc'[r] # "s_one" => spc'[r] = "s_fn"]_vars

\* C19 as stated: on a context set up by io_setup(4) with nothing
\* published, io_getevents returns 0 and copies no record, whatever user
\* space stored in ring->head, and io_submit still accepts requests.
C19_HostileHeadZero ==
    /\ [](gev.pc = "g_put" /\ NothingPublished => gev.i = 0 /\ gev.copied = 0)
    /\ SubmitAccepts

\* C19 amended: with 0xFFFFFFFF in ring->head and nothing published,
\* io_getevents does not fault, hang or read outside the ring: it takes the
\* head modulo nr_events, copies the slots from there up to the end of the
\* ring as if they were records (as many as asked for) and returns their
\* number, leaving the head advanced by it; and io_submit still accepts
\* requests.
C19_HostileHeadStale ==
    /\ [](~reap_bad /\ ring_head % nr_events \in Slots)
    /\ [](gev.pc = "g_put" => gev.i \in 0 .. gev.nr /\ gev.copied = gev.i)
    /\ [][gev.pc = "g_read" /\ gev'.pc = "g_put" /\ NothingPublished
            /\ ring_head = HeadAllOnes =>
              LET h == HeadAllOnes % nr_events IN
              /\ h # 0
              /\ gev'.i = Min(gev.nr, nr_events - h)
              /\ ring_head' = (h + gev'.i) % nr_events]_vars
    /\ SubmitAccepts

\* io_getevents is about to return 2 with nothing published, having moved
\* the head from 0xFFFFFFFF to two slots past its residue, and a request
\* submitted since has been accepted.
C19_Witness ==
    /\ gev.pc = "g_put" /\ gev.i = 2 /\ gev.copied = 2
    /\ NothingPublished
    /\ ring_head = (HeadAllOnes % nr_events) + 2
    /\ \E r \in Reqs : spc[r] = "ret_ok" /\ wpc[r] = "native"

\* C20: no actor reads or writes a request's aio_kiocb after aio_complete
\* has been called on it and kiocb_free has freed it; in particular
\* aio_thread_fn and io_submit_one touch no field of it after their
\* aio_complete call.
C20_NoUseAfterComplete == uaf = {}


\* The opcode functions of io_submit_one (the fget failure before them
\* aside).
OpcodeOutcomes == { op \in OpOutcomes : op.kind # "nofile" }

\* io_submit_one leaves the opcode function for out_put_req: the slot goes
\* back (the counter total rises by one), the reqs reference is not kept,
\* nothing is queued, and the error is what io_submit_one returns.
Disposed(r, ret) ==
    /\ spc'[r] = "s_ret" /\ sret'[r] = ret
    /\ CounterTotal' = CounterTotal + 1
    /\ reqs' = reqs
    /\ wpc'[r] = "none" /\ npub'[r] = 0 /\ ~ki_freed'[r]

C26_SentinelBeforeUnlink ==
    /\ [](\A r \in Reqs : Threaded(r) /\ ki_list[r] = "POISON" =>
                            ki_cancel[r] = KIOCB_CANCELLED)
    /\ [][\A r \in Reqs : wpc[r] \in {"c_event", "c_tail", "c_free"} =>
                            ncancel'[r] = ncancel[r]]_vars


\* C27: when kiocb_cancel's cmpxchg replaces the early cancel function (the
\* iocb is then still queued), the worker never calls the work function
\* and completes the iocb with -EINTR; when aio_thread_fn's cmpxchg has
\* installed the late function first, a kiocb_cancel that had read the
\* early one fails its cmpxchg, tries again with the late one, succeeds,
\* and calls the late function, once.
C27_TwoStage ==
    /\ [][kc.pc = "k_cas" /\ kc'.pc = "k_call" /\ kc.old = CancelEarly =>
            wpc[kc.r] = "queued"]_vars
    /\ [][\A r \in Reqs : wpc[r] = "queued" /\ ki_cancel[r] = KIOCB_CANCELLED =>
            \/ wpc'[r] = "queued"
            \/ wpc'[r] = "c_event" /\ kres'[r] = -EINTR]_vars
    /\ [][kc.pc = "k_cas" /\ kc.old = CancelEarly /\ ki_cancel[kc.r] = CancelLate
            /\ kc' # kc => kc'.pc = "k_cas" /\ kc'.old = CancelLate]_vars
    /\ [][kc.pc = "k_cas" /\ kc.old = CancelLate /\ kc' # kc =>
            kc'.pc = "k_call" /\ ki_cancel'[kc.r] = KIOCB_CANCELLED]_vars
    /\ [][\A r \in Reqs : ncancel'[r] # ncancel[r] =>
            /\ ncancel[r] = 0 /\ ncancel'[r] = 1 /\ kc.r = r
            /\ kc.old = CancelLate => wpc[r] \in {"running", "c_event"}
            /\ kc.old = CancelEarly => wpc[r] # "running"]_vars

\* Request 1 was cancelled while queued and its event, with -EINTR, is
\* published; the io_cancel of request 2 has read the early cancel function
\* and the worker has installed the late one since.
C27_Witness ==
    /\ ncancel[1] = 1 /\ npub[1] = 1
    /\ \E s \in Slots : shadow[s].obj = UserIocb(1) /\ shadow[s].res = -EINTR
    /\ kc.pc = "k_cas" /\ kc.r = 2 /\ kc.old = CancelEarly
    /\ ki_cancel[2] = CancelLate /\ wpc[2] = "running"


\* C28: the late cancel function sends its SIGKILL only while the request
\* is still on the active list, that is, before the worker's aio_complete
\* has done its list_del and so before it has returned; from the list_del
\* on, and after the flush_signals that follows aio_complete, no cancel
\* function is called for the request any more.
C28_SignalBeforeReturn ==
    /\ [][\A r \in Reqs : ncancel'[r] # ncancel[r] /\ ki_cancel[r] = CancelLate =>
            r \in active_reqs /\ wpc[r] \in {"running", "c_event"}]_vars
    /\ [][\A r \in Reqs : wpc[r] \in {"c_tail", "c_free", "t_cleanup", "done"} =>
            ncancel'[r] = ncancel[r]]_vars

\* A worker request was cancelled after the worker took it, the work
\* function still returned its result, and the worker is past aio_complete
\* and its flush.
C28_Witness ==
    \E r \in Reqs :
        /\ wpc[r] = "done" /\ ncancel[r] = 1 /\ ki_cancel[r] = KIOCB_CANCELLED
        /\ \E s \in Slots : shadow[s].obj = UserIocb(r) /\ shadow[s].res = 16


\* A system call holds the users reference lookup_ioctx gave it.
HoldsContext ==
    \/ \E r \in Reqs : spc[r] \notin {"idle", "ret_ok"}
    \/ \E d \in Destroyers : dpc[d] \in {"d_kill", "d_kill2", "d_put"}
    \/ gev.pc \notin {"idle", "g_fail"}
    \/ kc.pc # "idle"

C23_NoRestartCode ==
    \A s \in Slots : -io_events[s].res \notin RestartCodes


\* The records the io_getevents in progress has copied or can copy reach
\* its min_nr.
Enough == gev.i + Cardinality(unreaped) >= gev.min_nr

\* C22: aio_complete wakes ctx->wait after its tail store, so an
\* io_getevents caller that waits is never left asleep on the queue with
\* min_nr records there for it unless an aio_complete is still on its way
\* to the wake-up, and once min_nr records are published the caller leaves
\* read_events.
C22_NoLostWakeup ==
    /\ [][(\E r \in Reqs : ki_freed'[r] /\ ~ki_freed[r]) /\ gev.q = "on" =>
            gev'.q = "woken"]_vars
    /\ [](gev.pc = "g_sleep" /\ gev.q = "on" /\ Enough =>
            \E r \in Reqs : wpc[r] = "c_free")
    /\ (gev.pc \in {"g_read", "g_sleep"} /\ Enough) ~> (gev.pc = "g_put")

\* The caller is asleep on the queue waiting for two records, one is
\* published, and the aio_complete of the second has stored the tail and
\* not yet woken the queue.
C22_Witness ==
    /\ gev.pc = "g_sleep" /\ gev.q = "on" /\ gev.min_nr = 2 /\ gev.timeout = "null"
    /\ Cardinality(unreaped) = 2
    /\ \E r \in Reqs : wpc[r] = "c_free"


\* The thread acquires a lock in this step: the lock, and those it held.
Acquires(t) == Len(lk'[t].held) > Len(lk[t].held)
Acquired(t) == lk'[t].held[Len(lk'[t].held)]

\* Every acquisition of one of the four locks by a thread that holds
\* another of them goes up in rank.
Ordered(rank) ==
    \A t \in LockThreads :
        Acquires(t) /\ Acquired(t) \in CtxLocks =>
            \A i \in 1 .. Len(lk[t].held) :
                lk[t].held[i] \in CtxLocks => rank[lk[t].held[i]] < rank[Acquired(t)]

\* C21 as stated: the order is mm->ioctx_lock, ring_lock, ctx_lock,
\* completion_lock, and no path acquires an earlier lock of it while it
\* holds a later one.
C21_RegistryFirst ==
    [][Ordered([ioctx_lock |-> 1, ring_lock |-> 2, ctx_lock |-> 3,
                completion_lock |-> 4])]_vars

\* C21 amended: the order is ring_lock, mm->ioctx_lock, ctx_lock,
\* completion_lock, and no path acquires an earlier lock of it while it
\* holds a later one.
C21_RingFirst ==
    [][Ordered([ring_lock |-> 1, ioctx_lock |-> 2, ctx_lock |-> 3,
                completion_lock |-> 4])]_vars

\* One thread is in ioctx_add_table holding ring_lock and mm->ioctx_lock,
\* another took ctx->completion_lock.
C21_Witness ==
    /\ lk[1].path = "setup" /\ lk[1].held = <<"ring_lock", "ioctx_lock">>
    /\ lk[2].held = <<"completion_lock">>


\* The sum of ctx->max_reqs over a set of contexts.
RECURSIVE SumMaxReqs(_)
SumMaxReqs(S) ==
    IF S = {} THEN 0
    ELSE LET c == CHOOSE x \in S : TRUE IN kx[c].max_reqs + SumMaxReqs(S \ {c})

\* No io_setup, io_destroy or exit_aio call is in progress.
Quiescent == (\A t \in Tasks : su[t].pc = "idle") /\ xa.pc \in {"none", "returned"}

\* aio_nr counts the contexts in the table whenever no call is in
\* progress, is back at 0 when there is none, and is never above twice
\* aio_max_nr.
QuotaAccounted ==
    /\ aio_nr <= 2 * aio_max_nr
    /\ Quiescent => aio_nr = SumMaxReqs(Installed)
    /\ Quiescent /\ Installed = {} => aio_nr = 0

\* The events io_setup(n) asks for, rounded up as ioctx_alloc rounds, are
\* by themselves more than twice aio_max_nr.
OverLimit(n) ==
    n.hi = 1 \/ ioctx_alloc_max_reqs(n.lo) > 2 * aio_max_nr

\* The events io_setup(n) asks for, rounded up, are more than the ring
\* may hold: 0x10000000 / sizeof(struct io_event).
OverRecordLimit(n) ==
    n.hi = 1 \/ ioctx_alloc_max_reqs(n.lo) > 268435456 \div 32

\* The task's io_setup returns -EAGAIN in this step, and aio_nr and the
\* table are as they were.
FailsTryAgain(t) ==
    /\ su'[t].pc = "idle" /\ su'[t].ret = -EAGAIN
    /\ aio_nr' = aio_nr /\ ioctx_tbl' = ioctx_tbl

\* The same with -EINVAL.
FailsInvalid(t) ==
    /\ su'[t].pc = "idle" /\ su'[t].ret = -EINVAL
    /\ aio_nr' = aio_nr /\ ioctx_tbl' = ioctx_tbl

\* C24: after any sequence of io_setup, io_destroy and exit_aio, failed
\* setups included, aio_nr is the sum of max_reqs over the contexts in the
\* table, it is back at its initial value when all are gone, it never
\* exceeds twice aio_max_nr; and an io_setup that would exceed the limit,
\* by itself or with what aio_nr holds when it is compared, fails with
\* -EAGAIN (a request above the record-count limit may fail with -EINVAL
\* instead) and leaves aio_nr and the table as they were.
C24_NoQuotaLeak ==
    /\ []QuotaAccounted
    /\ [][\A t \in Tasks, n \in SetupSizes, ok \in BOOLEAN :
            ioctx_alloc_enter(t, n, ok) /\ OverLimit(n) /\ ok
                => FailsTryAgain(t) \/ (OverRecordLimit(n) /\ FailsInvalid(t))]_vars
    /\ [][\A t \in Tasks :
            ioctx_alloc_nr(t) /\ aio_nr_limit(aio_nr, kx[su[t].ctx].max_reqs)
                => FailsTryAgain(t)]_vars


\* The contexts exit_aio killed whose requests count has not drained.
Draining == xa.killed \ xa.drained

\* C30: exit_aio kills every context it finds in the table, with
\* mmap_size set to 0 and without vm_munmap of its ring; it returns only
\* after the reqs reference of each of them has drained; the count of its
\* wait is 0 only when all have drained, and after the subtraction of
\* skipped exactly then, complete() being called by the last to drain; and
\* it does not wait when the table held no context.
C30_ProcessExit ==
    /\ xa.pc \in {"sub", "wait", "free", "returned"} => xa.killed = xa.present
    /\ \A c \in Draining : kx[c].dead /\ kx[c].mmap_size = 0 /\ ~kx[c].unmapped
    /\ xa.pc \in {"free", "returned"} => Draining = {}
    /\ xa.pc \in {"loop", "sub"} /\ xa.wait.count = 0 => Draining = {}
    /\ xa.pc \in {"wait", "free"} => (xa.wait.count = 0 <=> Draining = {})
    /\ xa.wait.done => Draining = {} /\ xa.wait.count = 0
    /\ xa.present = {} => ~xa.blocked /\ xa.pc # "wait"

\* exit_aio has returned after it killed two contexts and waited for them.
C30_Witness ==
    /\ xa.pc = "returned"
    /\ xa.blocked
    /\ Cardinality(xa.killed) = 2


\* C31: io_destroy on a context on whose wait queue an io_getevents
\* caller sleeps, with no timeout and nothing in the ring: the sleeper is
\* woken, its aio_read_events sees ctx->dead and ends the wait with the
\* events it has copied or, if none, -EINVAL; io_getevents returns and
\* puts its users reference; and, every request in flight completing, the
\* io_destroy that waits for the context returns.
C31_DestroyWakesReaper ==
    /\ [][aio_read_events(FALSE, FALSE) /\ dead =>
            /\ gev'.pc = "g_put"
            /\ gev'.i = (IF gev'.copied > 0 THEN gev'.copied ELSE -EINVAL)]_vars
    /\ [][io_getevents_return /\ gev.pc = "g_put" => users' = users - 1]_vars
    /\ (dead /\ gev.pc \in {"g_sleep", "g_read"}) ~> (gev.pc = "g_put")
    /\ (gev.pc = "g_put") ~> (gev.pc = "idle")
    /\ (dpc[1] = "d_wait") ~> (dpc[1] = "d_done")

\* kill_ioctx has woken a caller of io_getevents that slept without a
\* timeout on an empty ring, and io_destroy waits.
C31_Witness ==
    /\ dead
    /\ gev.pc = "g_sleep" /\ gev.q = "woken" /\ gev.timeout = "null" /\ gev.i = 0
    /\ ring_head = ring_tail
    /\ dpc[1] \in {"d_put", "d_wait"}


\* The slots a get_reqs_available has taken from ctx->reqs_available and
\* not yet added to its CPU's counter.
InTransit == Cardinality({ c \in CPUs : percpu.at[c].pc = "take" }) * req_batch

ReserveConserved ==
    /\ reqs_available >= 0
    /\ \A c \in CPUs : cpu[c] >= 0
    /\ percpu.held + InTransit + reqs_available + SumCpu(CPUs) = nr_events - 1

\* C32: get_reqs_available fails only when its CPU's counter is 0 and
\* ctx->reqs_available, as it reads it, is below req_batch, and then has
\* changed no counter; it succeeds otherwise, and the call takes exactly
\* one slot out of the counters; ctx->reqs_available decreases only by
\* req_batch in a successful atomic_cmpxchg; with both CPUs reserving
\* and returning slots ctx->reqs_available is never negative and the
\* slots held and the slots in the counters add up to nr_events - 1.
C32_ReserveOne ==
    /\ [](ReserveConserved)
    /\ [][\A c \in CPUs :
            /\ get_reqs_available_read(c) =>
                  /\ cpu[c] # 0 =>
                        /\ percpu'.at[c] = [pc |-> "idle", fn |-> "get", avail |-> 0, ret |-> TRUE]
                        /\ cpu'[c] = cpu[c] - 1 /\ percpu'.held = percpu.held + 1
                  /\ cpu[c] = 0 /\ reqs_available < req_batch =>
                        /\ percpu'.at[c].pc = "idle" /\ ~percpu'.at[c].ret
                        /\ percpu'.held = percpu.held
                  /\ cpu[c] = 0 /\ reqs_available >= req_batch => percpu'.at[c].pc = "cmpxchg"
                  /\ cpu[c] = 0 => UNCHANGED <<reqs_available, cpu>>
            /\ get_reqs_available_cmpxchg(c) =>
                  /\ cpu[c] = 0
                  /\ percpu'.at[c].pc = "idle" <=> reqs_available < req_batch
                  /\ percpu'.at[c].pc = "idle" => ~percpu'.at[c].ret /\ percpu'.held = percpu.held
                  /\ percpu'.at[c].pc = "take" => reqs_available' = reqs_available - req_batch
                  /\ percpu'.at[c].pc # "take" => UNCHANGED <<reqs_available, cpu>>
            /\ get_reqs_available_take(c) =>
                  /\ percpu'.at[c].ret /\ percpu'.held = percpu.held + 1
                  /\ cpu'[c] = cpu[c] + req_batch - 1]_vars
    /\ [][reqs_available' < reqs_available =>
            /\ reqs_available' = reqs_available - req_batch
            /\ \E c \in CPUs : get_reqs_available_cmpxchg(c)]_vars

\* A get_reqs_available has failed on one CPU while the other CPU has
\* taken the last batch out of ctx->reqs_available and slots are held.
C32_Witness ==
    \E c \in CPUs :
       /\ percpu.at[c] = [pc |-> "idle", fn |-> "get", avail |-> 0, ret |-> FALSE]
       /\ percpu.at[1 - c].pc = "take"
       /\ reqs_available < req_batch
       /\ percpu.held > 0


\* The records between a user-written head, taken modulo nr_events, and
\* the kernel's tail.
EventsInRing(head, tl) == (tl + nr_events - (head % nr_events)) % nr_events

Surplus(completed, head, tl) ==
    IF completed - EventsInRing(head, tl) > 0 THEN completed - EventsInRing(head, tl) ELSE 0

\* C33: user_refill_reqs_available, and the refill aio_complete makes
\* when completed_events has passed 1, add to the counters exactly
\* completed_events minus the records between head modulo nr_events and
\* ctx->tail when that is positive, and nothing otherwise, and take the same
\* number off completed_events, whatever user space wrote into head; when
\* user space has not written head and a record was reaped since the last
\* refill, a get_reqs_available on the CPU of the refill finds a slot.
C33_Refill ==
    /\ [][\A r \in Reqs, c \in CPUs :
            user_refill_reqs_available(r, c) =>
               LET credit == Surplus(completed_events, ring_head, tail) IN
               /\ completed_events' = completed_events - credit
               /\ CounterTotal' = CounterTotal + credit
               /\ reaped /\ ~head_written =>
                     /\ credit > 0
                     /\ cpu'[c] # 0 \/ reqs_available' >= req_batch]_vars
    /\ [][\A r \in Reqs, who \in {"s", "w"}, c \in CPUs :
            aio_complete_tail(r, who, c) =>
               LET credit == IF completed_events + 1 > 1
                             THEN Surplus(completed_events + 1, ring_head, tail')
                             ELSE 0
               IN /\ completed_events' = completed_events + 1 - credit
                  /\ CounterTotal' = CounterTotal + credit]_vars

\* An io_submit is about to call get_reqs_available again after its
\* user_refill_reqs_available credited a slot that io_getevents had freed.
C33_Witness ==
    \E r \in Reqs :
       /\ spc[r] = "s_get2"
       /\ refilled[r] > 0
       /\ ~head_written
       /\ \E c \in CPUs : cpu[c] > 0


\* The records between head and tail of a ring.
Between(head, tl) == (tl + nr_events - head) % nr_events

\* C34: an aio_read_events_ring that does not fail copies out
\* min(nr, records between head and tail) events, those of the slots from
\* head on in ring order, through the end of the ring and of a page, and
\* stores head advanced by that number modulo nr_events; the calls run
\* one at a time under ring_lock, and the events returned by all calls
\* are the published events in the order of publication, each once.
C34_ReapInOrder ==
    /\ [][\A t \in Readers :
            aio_read_events_ring_store(t) =>
               LET s == reap.th[t]
                   n == Min(s.nr, Between(s.head0, s.tl))
               IN /\ s.ret = n
                  /\ Len(s.buf) = n
                  /\ \A k \in 1 .. n : s.buf[k] = io_events[(s.head0 + k - 1) % nr_events]
                  /\ ring_head' = (s.head0 + n) % nr_events
                  /\ ring_head = s.head0]_vars
    /\ [](\A t \in Readers : reap.th[t].pc # "idle" <=> reap.ring_lock = t)
    /\ [](\A k \in 1 .. Len(reap.returned) : reap.returned[k] = EventOf(1, k))
    /\ [](Len(reap.returned) + Cardinality(unreaped) + (reqs - 2) = MaxPub
            \/ \E t \in Readers : reap.th[t].pc = "out" /\ reap.th[t].ret > 0)

\* Both events have been returned, the second by a call that copied it
\* from the start of the ring or of the second page.
C34_Witness ==
    /\ Len(reap.returned) = MaxPub
    /\ \E t \in Readers : reap.th[t].ncopy = 2 /\ reap.th[t].ret = 2 /\ reap.th[t].pc = "idle"

\* C38: an aio_read_events_ring whose copy_to_user fails returns -EFAULT
\* and leaves ring->head as it was at the call, also when earlier
\* copies of the call went through; the records stay to be reaped.
C38_FaultKeepsHead ==
    /\ [](\A t \in Readers :
            reap.th[t].ret = -EFAULT /\ reap.th[t].pc # "idle" =>
               /\ ring_head = reap.th[t].head0
               /\ Between(ring_head, ring_tail) >= reap.th[t].ncopy)
    /\ [][\A t \in Readers :
            /\ \/ aio_read_events_ring_copy(t)
               \/ aio_read_events_ring_store(t)
               \/ aio_read_events_ring_unlock(t)
            /\ reap'.th[t].ret = -EFAULT
            => UNCHANGED <<ring_head, unreaped>>]_vars

\* The second copy_to_user of a call has failed after the first had copied
\* an event.
C38_Witness ==
    \E t \in Readers :
       /\ reap.th[t].pc = "out" /\ reap.th[t].ret = -EFAULT
       /\ reap.th[t].ncopy = 2 /\ Len(reap.th[t].buf) = 1


\* The contexts that are in mm->ioctx_table by the code's intent: entered
\* by ioctx_add_table and not killed.
LiveCtx == { c \in 1 .. tab.made :
               /\ c \notin tab.dead
               /\ \/ c \in tab.ready
                  \/ \E t \in Tasks : tab.th[t].pc = "ring_id" /\ tab.th[t].ctx = c }

\* C35: ioctx_add_table gives a context a slot that holds no other
\* context and stores the index in ctx->id and in ring->id, so that
\* lookup_ioctx finds the context from then on; a table grown to four
\* times its size keeps every context at its index; with two tasks
\* inserting and contexts being killed, every live context is in the
\* table exactly once, at its own index, and nothing else is.
C35_Registry ==
    /\ [](\A c \in LiveCtx :
             /\ tab.id[c] < Len(tab.table)
             /\ tab.table[tab.id[c] + 1] = c)
    /\ [](\A k \in 1 .. Len(tab.table) :
             tab.table[k] # NoCtx => tab.table[k] \in LiveCtx /\ tab.id[tab.table[k]] = k - 1)
    /\ [](\A c \in tab.ready \ tab.dead : lookup_table(c) = c)
    /\ [](\A c \in tab.dead : tab.table = <<>> \/ lookup_table(c) # c)
    /\ [][Len(tab.table') # Len(tab.table) =>
            /\ Len(tab.table') = (IF tab.table = <<>> THEN 1 ELSE Len(tab.table)) * 4
            /\ \A k \in 1 .. Len(tab.table) :
                  tab.table[k] # NoCtx => tab.table'[k] = tab.table[k]]_vars
    /\ [][\A t \in Tasks :
            (add_table_search(t) \/ add_table_install(t)) /\ tab'.th[t].pc = "ring_id" =>
               LET c == tab'.th[t].ctx IN
               /\ \A k \in 1 .. Len(tab.table) :
                     tab.table[k] # NoCtx => tab'.table[k] = tab.table[k]
               /\ tab'.id[c] + 1 > Len(tab.table) \/ tab.table[tab'.id[c] + 1] = NoCtx]_vars

\* The table has grown from 4 to 16 slots with four contexts in it, a
\* fifth has gone into slot 4, and one of the four has been killed since.
C35_Witness ==
    /\ Len(tab.table) = 16
    /\ tab.table[5] # NoCtx /\ tab.table[5] \in tab.ready
    /\ \E k \in 1 .. 4 : tab.table[k] = NoCtx
    /\ Cardinality(LiveCtx) = 4


\* C36: aio_migratepage puts a new page into ctx->ring_pages[idx] only
\* while it holds ring_lock and completion_lock, taken in that order, and
\* only when the slot holds the page it was called for; the copy and the
\* substitution are one critical section of completion_lock, so every
\* event aio_complete has stored is in the page the slot names and no
\* event is stored into or read from a page the context has put; and
\* once put_aio_ring_file has cleared mapping->private_data
\* aio_migratepage returns -EINVAL without using the context.
C36_Migration ==
    /\ [](~mig.stray)
    /\ [](\A k \in 1 .. Len(mig.replaced) :
             /\ mig.replaced[k].held = <<"private_lock", "ring_lock", "completion_lock">>
             /\ mig.replaced[k].found = mig.replaced[k].old)
    /\ [](mig.content[mig.ring_pages[1]] = 1 .. mig.published)
    /\ [](mig.r.pc = "unlock" => \E n \in 0 .. mig.published : mig.r.seen = 1 .. n)
    /\ [][mig'.ring_pages # mig.ring_pages =>
            /\ aio_migratepage_assign
            /\ mig.ring_lock = "migrate" /\ mig.completion_lock = "migrate"]_vars
    /\ [](~mig.private_data /\ mig.m.pc # "idle" => mig.m.pc = "out" /\ mig.m.rc = -EINVAL)

\* The ring page has been replaced between the two events and again after
\* them, both events are in the current page, and an aio_migratepage called
\* after the ring file was disconnected is about to return -EINVAL.
C36_Witness ==
    /\ Len(mig.replaced) = 2
    /\ mig.content[2] = {1} /\ mig.content[3] = {1, 2}
    /\ mig.t = "freed"
    /\ mig.m.pc = "out" /\ mig.m.rc = -EINVAL


\* C37: outside the steps that move a slot, the requests that hold a
\* reserved slot and have not published their event, completed_events,
\* ctx->reqs_available and the per-CPU counters add up to nr_events - 1,
\* and none of them is negative, whatever value user space has stored in
\* the head of the ring.
C37_SlotConservation ==
    /\ Cardinality(InFlight) + completed_events + reqs_available + SumCpu(CPUs)
          = nr_events - 1
    /\ completed_events \in 0 .. (nr_events - 1)
    /\ reqs_available \in 0 .. (nr_events - 1)
    /\ \A c \in CPUs : cpu[c] \in 0 .. (nr_events - 1)

\* User space has stored a head outside the ring, and a refill has since
\* credited back the slot of a record that is still unreaped.
C37_Witness ==
    /\ head_written /\ ring_head \notin Slots
    /\ Cardinality(unreaped) > completed_events
    /\ \E r \in Reqs : refilled[r] > 0


\* C39: the descriptor reserved for an IOCB_CMD_OPENAT request is released
\* with put_unused_fd exactly once by the time the request is freed when
\* no file was installed in it, never more than once before, and never
\* when a file was installed in it.
C39_FdReleasedOnce ==
    \A r \in Reqs :
       /\ oa.req[r].installed => oa.req[r].puts = 0
       /\ oa.req[r].puts <= 1
       /\ oa.req[r].pc = "freed" /\ oa.req[r].fd >= 0 /\ ~oa.req[r].installed
             => oa.req[r].puts = 1



\* The lock thread t waits for: its next operation is a spin_lock or
\* mutex_lock of a lock that is held.
WaitsOn(t) ==
    IF lk[t].path = "none" THEN {}
    ELSE LET o == LockPaths[lk[t].path][lk[t].pos]
         IN IF o.op = "lock" /\ o.l \in HeldLocks THEN {o.l} ELSE {}

\* t waits for a lock that u holds.
WaitsFor(t, u) == \E i \in 1 .. Len(lk[u].held) : lk[u].held[i] \in WaitsOn(t)

\* Every thread of S waits for a lock held inside S.
Deadlocked(S) == S # {} /\ \A t \in S : \E u \in S : WaitsFor(t, u)

\* C40: no interleaving of setup with its error paths, destroy, submit with
\* refill, complete, reap, cancel, the drain and free of teardown, mremap
\* and page migration reaches a state where threads wait for each other's
\* locks; aio_migratepage that finds ring_lock taken does not wait for it:
\* it goes to out with rc = -EAGAIN, holding what it held.
C40_DeadlockFree ==
    /\ [](\A S \in SUBSET LockThreads : ~Deadlocked(S))
    /\ [][\A t \in LockThreads :
             /\ lk[t].path = "migrate" /\ lk[t].pos = 2
             /\ "ring_lock" \in HeldLocks
             => /\ ENABLED lock_path_step(t)
                /\ lock_path_step(t)
                      => /\ lk'[t].rc = -EAGAIN /\ lk'[t].pos = 6
                         /\ lk'[t].held = <<"private_lock">>]_vars

\* Migration has backed off while a failed io_setup, holding ring_lock,
\* waits in put_aio_ring_file for the private_lock migration holds; a third
\* thread holds completion_lock.
C40_Witness ==
    \E t, u, v \in LockThreads :
       /\ lk[t].path = "migrate" /\ lk[t].rc = -EAGAIN /\ lk[t].pos = 6
       /\ lk[t].held = <<"private_lock">>
       /\ lk[u].path \in {"setup_err", "setup_err_ctx"}
       /\ lk[u].held = <<"ring_lock">> /\ WaitsOn(u) = {"private_lock"}
       /\ lk[v].held = <<"completion_lock">>

=============================================================================
